---------------------------- MODULE Spec2Model ----------------------------
(***************************************************************************)
(* Thermal control engine of sonic_platform/thermal_actions.py:            *)
(* PIDController, ThermalControlAlgorithmAction and set_all_fan_speeds.    *)
(*                                                                         *)
(* Real numbers of the program are modelled as exact rationals <<n, d>>    *)
(* in lowest terms with d > 0, so that the arithmetic of the controller    *)
(* (products with fractional gains, division by the interval) is computed  *)
(* and not approximated.                                                   *)
(***************************************************************************)
EXTENDS Integers, Sequences, FiniteSets, TLC

-----------------------------------------------------------------------------
(* Exact rational arithmetic                                               *)

Abs(x) == IF x < 0 THEN -x ELSE x

RECURSIVE GCD(_, _)
GCD(a, b) == IF b = 0 THEN a ELSE GCD(b, a % b)

Rat(n, d) ==
    LET g == GCD(Abs(n), Abs(d))
        s == IF d < 0 THEN -1 ELSE 1
    IN  <<(s * n) \div g, (s * d) \div g>>

RInt(n) == <<n, 1>>
Zero == RInt(0)

RAdd(a, b) == Rat(a[1] * b[2] + b[1] * a[2], a[2] * b[2])
RSub(a, b) == Rat(a[1] * b[2] - b[1] * a[2], a[2] * b[2])
RMul(a, b) == Rat(a[1] * b[1], a[2] * b[2])
RDiv(a, b) == Rat(a[1] * b[2], a[2] * b[1])
RLt(a, b) == a[1] * b[2] < b[1] * a[2]
RLe(a, b) == a[1] * b[2] <= b[1] * a[2]
\* Python max(a, b) and min(a, b): the first argument wins a tie.
RMax(a, b) == IF RLt(a, b) THEN b ELSE a
RMin(a, b) == IF RLt(b, a) THEN b ELSE a

\* round(x, 3): nearest multiple of 1/1000, ties to the even multiple.
Round3(r) ==
    LET num == r[1] * 1000
        q   == num \div r[2]
        rem == num - q * r[2]
        up  == IF 2 * rem > r[2] THEN TRUE
               ELSE IF 2 * rem < r[2] THEN FALSE
               ELSE q % 2 = 1
    IN  Rat(IF up THEN q + 1 ELSE q, 1000)

-----------------------------------------------------------------------------
(* Module-level constants                                                  *)

FAN_MIN_SPEED == 30
FAN_MAX_SPEED == 100

-----------------------------------------------------------------------------
(* Bounds                                                                  *)

MaxCalls == 4
MaxTicks == 2
MaxSensors == 2
MaxFans == 2

-----------------------------------------------------------------------------
VARIABLES
    pid,              \* the PIDController object under test (fields of __init__)
    pid_status,       \* "none" before construction, "ok", or the error raised
    hist,             \* one record per compute_detailed call made on pid
    policy,           \* _pidDomains, _constants and _fan_limits as loaded
    pidControllers,   \* _pidControllers: domain name -> PIDController
    extra_setpoint_margin,  \* _extra_setpoint_margin: domain name -> margin
    ticks,            \* number of execute calls made so far
    tick,             \* inputs and observable effects of the last execute
    loaded,           \* the last load_from_json call: its argument and outcome
    csv_loggers,      \* _csv_logger_control, _csv_logger_temperature and
                      \* _csv_loggers_input_error: the headers of each logger
    csv,              \* a CsvLogger, its file and its last log_row call
    dpm               \* an ADM1266 device: its blackbox and the last call made

pidVars == <<pid, pid_status, hist>>
engineVars == <<policy, pidControllers, extra_setpoint_margin, ticks, tick>>
loadVars == <<loaded>>
telemetryVars == <<csv_loggers>>
csvVars == <<csv>>
dpmVars == <<dpm>>
vars == <<pid, pid_status, hist, policy, pidControllers,
          extra_setpoint_margin, ticks, tick, loaded, csv_loggers, csv, dpm>>

-----------------------------------------------------------------------------
(* PIDController                                                           *)

\* Line 745: the integral is pre-seeded to the midpoint of the output range.
SeedIntegral_Zero(output_min, output_max, ki) == Zero
SeedIntegral(output_min, output_max, ki) ==
    RDiv(RDiv(RAdd(output_min, output_max), RInt(2)), ki)

\* Line 745 divides by integral_gain: the constructor raises when it is 0.
PIDConstructRaises(ki) == ki = Zero

PIDController(interval, kp, ki, kd, output_min, output_max) ==
    [ interval   |-> interval,
      kp         |-> kp,
      ki         |-> ki,
      kd         |-> kd,
      output_min |-> output_min,
      output_max |-> output_max,
      integral   |-> SeedIntegral(output_min, output_max, ki),
      prev_error |-> Zero,
      first_run  |-> TRUE ]

\* Lines 788-792.
Derivative_NoFirstRun(c, error) ==
    RDiv(RSub(error, c.prev_error), RInt(c.interval))
Derivative(c, error) ==
    IF c.first_run THEN Zero
    ELSE RDiv(RSub(error, c.prev_error), RInt(c.interval))

\* Line 795.
CandidateIntegral(c, error) == RAdd(c.integral, RMul(error, RInt(c.interval)))

\* Line 798: integral is the candidate integral of line 795.
RawOutput_StoredIntegral(c, error, integral, derivative) ==
    RAdd(RAdd(RMul(c.kp, error), RMul(c.ki, c.integral)),
         RMul(c.kd, derivative))
RawOutput(c, error, integral, derivative) ==
    RAdd(RAdd(RMul(c.kp, error), RMul(c.ki, integral)),
         RMul(c.kd, derivative))

\* Line 799.
Saturate_UpperOnly(c, output) == RMin(c.output_max, output)
Saturate(c, output) == RMax(c.output_min, RMin(c.output_max, output))

\* Line 806.
ShouldUpdateIntegral_Always(c, output, error) == TRUE
ShouldUpdateIntegral_Unsaturated(c, output, error) ==
    RLe(output, c.output_max) /\ RLe(c.output_min, output)
ShouldUpdateIntegral(c, output, error) ==
    /\ (RLe(output, c.output_max) \/ RLt(error, Zero))
    /\ (RLe(c.output_min, output) \/ RLt(Zero, error))

\* Lines 790 and 805-808: the state saved for the next call.
SaveState_StalePrevError(c, error, integral, should) ==
    [c EXCEPT !.first_run = FALSE,
              !.integral  = IF should THEN integral ELSE @]
SaveState(c, error, integral, should) ==
    [c EXCEPT !.first_run  = FALSE,
              !.prev_error = error,
              !.integral   = IF should THEN integral ELSE @]

\* Lines 818-828: the value returned, given the locals of the call and the
\* controller after it.  raw and derivative are the unrounded locals
\* `output` and `derivative`.
ComputeResult(error, derivative, output, saturated, should, after) ==
    [ controller |-> after,
      output     |-> saturated,
      raw        |-> output,
      derivative |-> derivative,
      details    |-> [ P                |-> Round3(error),
                       I                |-> Round3(after.integral),
                       D                |-> Round3(derivative),
                       raw_output       |-> Round3(output),
                       saturated_output |-> Round3(saturated),
                       frozen_integral  |-> ~should ] ]

\* Lines 803-828, given the decision of line 806.
ComputeFromDecision(c, error, derivative, integral, output, should) ==
    ComputeResult(error, derivative, output, Saturate(c, output), should,
                  SaveState(c, error, integral, should))

\* Lines 799-828, given the raw output of line 798.
ComputeFromOutput(c, error, derivative, integral, output) ==
    ComputeFromDecision(c, error, derivative, integral, output,
                        ShouldUpdateIntegral(c, output, error))

\* Lines 797-828, given the derivative and the candidate integral.
ComputeFromTerms(c, error, derivative, integral) ==
    ComputeFromOutput(c, error, derivative, integral,
                      RawOutput(c, error, integral, derivative))

\* compute_detailed (lines 771-828).
ComputeDetailed(c, error) ==
    ComputeFromTerms(c, error, Derivative(c, error),
                     CandidateIntegral(c, error))

\* compute (lines 758-769).
Compute(c, error) == ComputeDetailed(c, error).output

NoController ==
    [ interval |-> 1, kp |-> Zero, ki |-> Zero, kd |-> Zero,
      output_min |-> Zero, output_max |-> Zero,
      integral |-> Zero, prev_error |-> Zero, first_run |-> TRUE ]

-----------------------------------------------------------------------------
(* ThermalControlAlgorithmAction and set_all_fan_speeds                    *)

\* An optional value: None, or a value v.
None == <<>>
Some(v) == <<v>>
IsNone(o) == o = <<>>
Val(o) == o[1]

\* set_all_fan_speeds (lines 188-214).  fans[i] is the sequence of outcomes
\* of the successive set_speed calls made on fan i within one tick: "ok"
\* (returns True), "absent" (returns False) or "throw" (raises).  prior are
\* the calls made earlier in the tick.  The result holds the calls of this
\* pass, each with the fan, the speed passed and the outcome.
FanCall(i, fans, speed, prior) ==
    [fan     |-> i,
     speed   |-> speed,
     outcome |-> fans[i][Cardinality({c \in 1..Len(prior) : prior[c].fan = i}) + 1]]

RECURSIVE SetSpeedFrom(_, _, _, _, _)
RECURSIVE SetSpeedFrom_StopAtAbsent(_, _, _, _, _)
SetSpeedFrom_StopAtAbsent(i, fans, speed, prior, calls) ==
    IF i > Len(fans)
    THEN [error |-> "none", calls |-> calls]
    ELSE IF fans[i][Cardinality({c \in 1..Len(prior) : prior[c].fan = i}) + 1]
                \in {"throw", "absent"}
    THEN [error |-> "fan exception",
          calls |-> Append(calls, FanCall(i, fans, speed, prior))]
    ELSE SetSpeedFrom_StopAtAbsent(i + 1, fans, speed, prior,
                      Append(calls, FanCall(i, fans, speed, prior)))
SetSpeedFrom(i, fans, speed, prior, calls) ==
    IF i > Len(fans)
    THEN [error |-> "none", calls |-> calls]
    ELSE IF fans[i][Cardinality({c \in 1..Len(prior) : prior[c].fan = i}) + 1]
                = "throw"
    THEN [error |-> "fan exception",
          calls |-> Append(calls, FanCall(i, fans, speed, prior))]
    ELSE SetSpeedFrom(i + 1, fans, speed, prior,
                      Append(calls, FanCall(i, fans, speed, prior)))

SetAllFanSpeeds_EmptyOk(fans, speed, prior) ==
    SetSpeedFrom(1, fans, speed, prior, <<>>)
SetAllFanSpeeds(fans, speed, prior) ==
    IF fans = <<>>
    THEN [error |-> "FanException", calls |-> <<>>]
    ELSE SetSpeedFrom(1, fans, speed, prior, <<>>)

\* _initialize_pid_controllers, the loop of lines 588-602 from domain k on.
\* A constructor that raises leaves the controllers stored so far in place.
RECURSIVE InitializeDomains(_, _, _, _, _)
InitializeDomains(k, cfg, ctrls, margins, interval) ==
    IF k > Len(cfg.pid_domains)
    THEN [error |-> "none", ctrls |-> ctrls, margins |-> margins]
    ELSE IF PIDConstructRaises(cfg.pid_domains[k].KI)
    THEN [error |-> "ZeroDivisionError", ctrls |-> ctrls, margins |-> margins]
    ELSE InitializeDomains(k + 1, cfg,
             (cfg.pid_domains[k].name :>
                  PIDController(interval, cfg.pid_domains[k].KP,
                                cfg.pid_domains[k].KI, cfg.pid_domains[k].KD,
                                cfg.fan_min, cfg.fan_max)) @@ ctrls,
             (cfg.pid_domains[k].name :>
                  cfg.pid_domains[k].extra_setpoint_margin) @@ margins,
             interval)

\* _initialize_pid_controllers (lines 571-602).
InitializePidControllers_NoIntervalCheck(cfg, ctrls, margins, interval) ==
    InitializeDomains(1, cfg, ctrls, margins, interval)
InitializePidControllers(cfg, ctrls, margins, interval) ==
    IF interval # cfg.interval
    THEN [error |-> "ValueError: interval", ctrls |-> ctrls,
          margins |-> margins]
    ELSE InitializeDomains(1, cfg, ctrls, margins, interval)

\* Lines 616-620: thermal t becomes a candidate of its domain.
IsCandidate_IgnoreControlled(t, ctrls) ==
    t.has_pid /\ t.domain # "" /\ t.domain \in DOMAIN ctrls
IsCandidate(t, ctrls) ==
    /\ t.has_pid /\ t.controlled
    /\ t.domain # "" /\ t.domain \in DOMAIN ctrls

\* Lines 621-623: thermal i is appended to the list of domain d; groups is
\* the dictionary domain_thermals in insertion order, a sequence of
\* [domain, members], members being indices into thermals.
AddToGroup(groups, d, i) ==
    IF \E k \in 1..Len(groups) : groups[k].domain = d
    THEN [k \in 1..Len(groups) |->
             IF groups[k].domain = d
             THEN [groups[k] EXCEPT !.members = Append(@, i)]
             ELSE groups[k]]
    ELSE Append(groups, [domain |-> d, members |-> <<i>>])

\* _group_thermals_by_domain, the loop of lines 615-625 from thermal i on.
RECURSIVE GroupFrom(_, _, _, _)
GroupFrom(i, thermals, ctrls, groups) ==
    IF i > Len(thermals) THEN groups
    ELSE GroupFrom(i + 1, thermals, ctrls,
             IF IsCandidate(thermals[i], ctrls)
             THEN AddToGroup(groups, thermals[i].domain, i)
             ELSE groups)

\* Lines 626-632.
GroupResult(groups) ==
    [error  |-> IF groups = <<>> THEN "ValueError: no thermals" ELSE "none",
     groups |-> groups]

\* _group_thermals_by_domain (lines 604-632).
GroupThermalsByDomain(thermals, ctrls) ==
    GroupResult(GroupFrom(1, thermals, ctrls, <<>>))

\* Lines 653-661: a thermal without temperature or setpoint is skipped.
IsUsable(t) == ~IsNone(t.temperature) /\ ~IsNone(t.setpoint)

\* Line 663.
ThermalError_NoMargin(t, margin) ==
    RInt(Val(t.temperature) - Val(t.setpoint))
ThermalError(t, margin) ==
    RSub(RInt(Val(t.temperature) - Val(t.setpoint)), margin)

\* Lines 665-668: best is None or [error, thermal]; a later thermal
\* replaces the best only if its error is strictly larger.
BetterOf_Last(best, error, i) == Some([error |-> error, thermal |-> i])
BetterOf_Smallest(best, error, i) ==
    IF IsNone(best) \/ RLt(error, Val(best).error)
    THEN Some([error |-> error, thermal |-> i])
    ELSE best
BetterOf(best, error, i) ==
    IF IsNone(best) \/ RLt(Val(best).error, error)
    THEN Some([error |-> error, thermal |-> i])
    ELSE best

\* The loop of lines 652-668 from members[j] on.
RECURSIVE MaxErrorFrom(_, _, _, _, _)
MaxErrorFrom(j, members, thermals, margin, best) ==
    IF j > Len(members) THEN best
    ELSE MaxErrorFrom(j + 1, members, thermals, margin,
             IF IsUsable(thermals[members[j]])
             THEN BetterOf(best, ThermalError(thermals[members[j]], margin),
                           members[j])
             ELSE best)

\* Lines 670-680, given the largest error found.
PidOutputOf(ctrl, best) ==
    IF IsNone(best)
    THEN [error |-> "ValueError: no valid thermal"]
    ELSE [error |-> "none", max_error |-> Val(best).error,
          max_error_thermal |-> Val(best).thermal,
          pid |-> ComputeDetailed(ctrl, Val(best).error)]

\* _compute_domain_pid_output (lines 634-680).
ComputeDomainPidOutput(ctrl, margin, members, thermals) ==
    PidOutputOf(ctrl, MaxErrorFrom(1, members, thermals, margin, None))

\* Lines 523-525: the entries stored for a domain.
DomainOutput(domain, r, thermals) ==
    [domain            |-> domain,
     pid_output        |-> r.pid.output,
     max_error         |-> r.max_error,
     max_error_thermal |-> thermals[r.max_error_thermal].name,
     pid_details       |-> r.pid.details]

\* The loop of lines 521-525 from group k on.  outputs is pid_outputs,
\* max_error_thermals and pid_details_by_domain in insertion order.  A
\* domain that raises ends the loop; the controllers already computed keep
\* their new state.
RECURSIVE ComputeDomains(_, _, _, _, _, _)
RECURSIVE ComputeDomainsWith(_, _, _, _, _, _, _)
ComputeDomainsWith(k, groups, thermals, ctrls, margins, outputs, r) ==
    IF r.error # "none"
    THEN [error |-> r.error, ctrls |-> ctrls, outputs |-> outputs]
    ELSE ComputeDomains(k + 1, groups, thermals,
             [ctrls EXCEPT ![groups[k].domain] = r.pid.controller], margins,
             Append(outputs, DomainOutput(groups[k].domain, r, thermals)))

ComputeDomains(k, groups, thermals, ctrls, margins, outputs) ==
    IF k > Len(groups)
    THEN [error |-> "none", ctrls |-> ctrls, outputs |-> outputs]
    ELSE ComputeDomainsWith(k, groups, thermals, ctrls, margins, outputs,
             ComputeDomainPidOutput(ctrls[groups[k].domain],
                                    margins[groups[k].domain],
                                    groups[k].members, thermals))

\* Lines 531-532: max(pid_outputs.values()) and max(pid_outputs, key=...)
\* return the first maximal entry in insertion order.
MaxIndex_Min(outputs) ==
    CHOOSE k \in 1..Len(outputs) :
        /\ \A j \in 1..Len(outputs) :
              RLe(outputs[k].pid_output, outputs[j].pid_output)
        /\ \A j \in 1..(k - 1) :
              RLt(outputs[k].pid_output, outputs[j].pid_output)
MaxIndex_First(outputs) == 1
MaxIndex_Last(outputs) ==
    CHOOSE k \in 1..Len(outputs) :
        /\ \A j \in 1..Len(outputs) :
              RLe(outputs[j].pid_output, outputs[k].pid_output)
        /\ \A j \in (k + 1)..Len(outputs) :
              RLt(outputs[j].pid_output, outputs[k].pid_output)
MaxIndex(outputs) ==
    CHOOSE k \in 1..Len(outputs) :
        /\ \A j \in 1..Len(outputs) :
              RLe(outputs[j].pid_output, outputs[k].pid_output)
        /\ \A j \in 1..(k - 1) :
              RLt(outputs[j].pid_output, outputs[k].pid_output)

\* _convert_pid_output_to_speed (lines 682-694).
ConvertPidOutputToSpeed(cfg, pid_output) ==
    RMax(cfg.fan_min, RMin(cfg.fan_max, pid_output))

\* Lines 538-539.
SelectedDomain_NeverNone(cfg, final_speed, max_domain) == max_domain
SelectedDomain(cfg, final_speed, max_domain) ==
    IF RLe(final_speed, cfg.fan_min) THEN "None" ELSE max_domain

\* What a run of _execute_raise_on_error leaves behind: error # "none"
\* means the method raised.  groups is domain_thermals of line 515.
Run(error, ctrls, margins, groups, outputs, max_output, max_domain, final_speed, selected_domain, calls) ==
    [error |-> error, ctrls |-> ctrls, margins |-> margins,
     groups |-> groups,
     outputs |-> outputs, max_output |-> max_output,
     max_domain |-> max_domain, final_speed |-> final_speed,
     selected_domain |-> selected_domain, calls |-> calls]

\* Lines 537-569, given the speed of line 535 and the result of the fan-out
\* of line 569.
ExecuteFromSpeed(cfg, init, grouped, computed, max, final_speed, fanout) ==
    Run(fanout.error, computed.ctrls, init.margins, grouped.groups,
        computed.outputs, max.pid_output, max.domain, final_speed,
        SelectedDomain(cfg, final_speed, max.domain), fanout.calls)

\* Lines 534-569, given the maximal entry of pid_outputs.
ExecuteFromMax(cfg, fans, init, grouped, computed, max, final_speed) ==
    ExecuteFromSpeed(cfg, init, grouped, computed, max, final_speed,
                     SetAllFanSpeeds(fans, final_speed, <<>>))

\* Lines 527-569, given the result of the loop over the domains.
ExecuteFromOutputs_Rollback(cfg, fans, init, grouped, computed) ==
    IF computed.error # "none"
    THEN Run(computed.error, init.ctrls, init.margins, grouped.groups,
             computed.outputs, Zero, "", Zero, "", <<>>)
    ELSE IF computed.outputs = <<>>
    THEN Run("ValueError: no PID outputs", computed.ctrls, init.margins,
             grouped.groups, <<>>, Zero, "", Zero, "", <<>>)
    ELSE ExecuteFromMax(cfg, fans, init, grouped, computed,
             computed.outputs[MaxIndex(computed.outputs)],
             ConvertPidOutputToSpeed(cfg,
                 computed.outputs[MaxIndex(computed.outputs)].pid_output))
ExecuteFromOutputs(cfg, fans, init, grouped, computed) ==
    IF computed.error # "none"
    THEN Run(computed.error, computed.ctrls, init.margins, grouped.groups,
             computed.outputs, Zero, "", Zero, "", <<>>)
    ELSE IF computed.outputs = <<>>
    THEN Run("ValueError: no PID outputs", computed.ctrls, init.margins,
             grouped.groups, <<>>, Zero, "", Zero, "", <<>>)
    ELSE ExecuteFromMax(cfg, fans, init, grouped, computed,
             computed.outputs[MaxIndex(computed.outputs)],
             ConvertPidOutputToSpeed(cfg,
                 computed.outputs[MaxIndex(computed.outputs)].pid_output))

\* Lines 517-569, given the grouping of the thermals.
ExecuteFromGroups(cfg, thermals, fans, init, grouped) ==
    IF grouped.error # "none"
    THEN Run(grouped.error, init.ctrls, init.margins, grouped.groups, <<>>,
             Zero, "", Zero, "", <<>>)
    ELSE ExecuteFromOutputs(cfg, fans, init, grouped,
             ComputeDomains(1, grouped.groups, thermals, init.ctrls,
                            init.margins, <<>>))

\* Lines 509-569, given the result of the initialisation of lines 504-507.
\* The telemetry of lines 511-513 and 545-566 (CSV rows) takes no part in
\* the control path.
ExecuteFromInit(cfg, thermals, fans, init) ==
    IF init.error # "none"
    THEN Run(init.error, init.ctrls, init.margins, <<>>, <<>>, Zero, "",
             Zero, "", <<>>)
    ELSE ExecuteFromGroups(cfg, thermals, fans, init,
             GroupThermalsByDomain(thermals, init.ctrls))

\* Line 505: `if not self._pidControllers`.
NeedsInitialization_Always(ctrls) == TRUE
NeedsInitialization(ctrls) == DOMAIN ctrls = {}

\* _execute_raise_on_error (lines 493-569).  info: thermal_info_dict holds
\* a ThermalInfo; interval: what the thermal manager reports; thermals and
\* fans: what get_thermals() and get_fans() return.
ExecuteRaiseOnError(cfg, ctrls, margins, info, interval, thermals, fans) ==
    IF ~info
    THEN Run("ValueError: no thermal info", ctrls, margins, <<>>, <<>>, Zero,
             "", Zero, "", <<>>)
    ELSE ExecuteFromInit(cfg, thermals, fans,
             IF NeedsInitialization(ctrls)
             THEN InitializePidControllers(cfg, ctrls, margins, interval)
             ELSE [error |-> "none", ctrls |-> ctrls, margins |-> margins])

\* Lines 485-491: the fail-safe fan-out after r raised.
FailSafe_Skip(fans, r) == [error |-> "none", calls |-> <<>>]
FailSafe_Stop(fans, r) ==
    IF r.error = "none"
    THEN [error |-> "none", calls |-> <<>>]
    ELSE SetAllFanSpeeds(fans, Zero, r.calls)
FailSafe(fans, r) ==
    IF r.error = "none"
    THEN [error |-> "none", calls |-> <<>>]
    ELSE SetAllFanSpeeds(fans, RInt(FAN_MAX_SPEED), r.calls)

-----------------------------------------------------------------------------
(* Telemetry of the engine: the CSV loggers and their headers              *)

\* _process_sensor_name (lines 360-380) over the sensor names of the model:
\* re.match(r"ASIC [pt]", name) drops the name, and
\* re.match(r"Transceiver (Port\d+)", name) keeps the captured group.
MatchesAsicPT(name) == name \in { "ASIC temp0", "ASIC pkg0" }
TransceiverPort(name) ==
    CASE name = "Transceiver Port2"  -> Some("Port2")
      [] name = "Transceiver Port10" -> Some("Port10")
      [] OTHER                       -> None
ProcessSensorName(name) ==
    IF MatchesAsicPT(name) THEN None
    ELSE IF ~IsNone(TransceiverPort(name)) THEN TransceiverPort(name)
    ELSE Some(name)

\* _natural_sort_key (lines 33-47) over the names of the model.  The key of
\* a name is [text.lower(), int(digits), ""]; it is given here as the rank
\* of the lower-cased text in string order and the number, -1 standing for
\* a name without digits (whose key is the one-element list).
NaturalSortKey(name) ==
    CASE name = "amb0"   -> <<1, 0>>
      [] name = "asic"   -> <<2, -1>>
      [] name = "asic0"  -> <<2, 0>>
      [] name = "asic1"  -> <<2, 1>>
      [] name = "cpu"    -> <<3, -1>>
      [] name = "cpu0"   -> <<3, 0>>
      [] name = "Port2"  -> <<4, 2>>
      [] name = "Port10" -> <<4, 10>>
      [] name = "psu0"   -> <<5, 0>>
      [] OTHER           -> <<6, 0>>

\* The order of Python lists on two keys.
KeyLess(a, b) == a[1] < b[1] \/ (a[1] = b[1] /\ a[2] < b[2])

\* sorted(names, key=_natural_sort_key) on names with distinct keys.
RECURSIVE SortedNames(_)
SortedNames(names) ==
    IF names = {} THEN <<>>
    ELSE LET first == CHOOSE n \in names :
                          \A o \in names \ {n} :
                              KeyLess(NaturalSortKey(n), NaturalSortKey(o))
         IN  <<first>> \o SortedNames(names \ {first})

\* Lines 389-400: the thermals that enter all_sensor_temps, and the keys of
\* that dictionary.
LoggedThermals(thermals) ==
    { i \in 1..Len(thermals) :
        /\ ~IsNone(thermals[i].temperature)
        /\ ~IsNone(ProcessSensorName(thermals[i].name)) }

LoggedName(t) == Val(ProcessSensorName(t.name))

\* all_sensor_temps (line 400): processed name -> temperature; a later
\* thermal with the same processed name replaces an earlier one.  The
\* temperatures of the model are integers, which round(_, 3) leaves alone.
AllSensorTemps(thermals) ==
    [ n \in { LoggedName(thermals[i]) : i \in LoggedThermals(thermals) } |->
        LET last == CHOOSE i \in LoggedThermals(thermals) :
                        /\ LoggedName(thermals[i]) = n
                        /\ \A j \in LoggedThermals(thermals) :
                              LoggedName(thermals[j]) = n => j <= i
        IN  Val(thermals[last].temperature) ]

\* Lines 403-405: the thermals that enter domain_sensors.
ErrorLoggedThermals(thermals) ==
    { i \in LoggedThermals(thermals) :
        /\ thermals[i].has_pid /\ thermals[i].controlled
        /\ ~IsNone(thermals[i].setpoint) }

\* domain_sensors (lines 406-411): domain -> processed name -> error, the
\* error taken without the domain's setpoint margin.
DomainSensors(thermals) ==
    [ d \in { thermals[i].domain : i \in ErrorLoggedThermals(thermals) } |->
        [ n \in { LoggedName(thermals[i]) :
                    i \in { j \in ErrorLoggedThermals(thermals) :
                              thermals[j].domain = d } } |->
            LET last == CHOOSE i \in ErrorLoggedThermals(thermals) :
                            /\ thermals[i].domain = d
                            /\ LoggedName(thermals[i]) = n
                            /\ \A j \in ErrorLoggedThermals(thermals) :
                                  (thermals[j].domain = d
                                   /\ LoggedName(thermals[j]) = n) => j <= i
            IN  Val(thermals[last].temperature) - Val(thermals[last].setpoint) ] ]

\* The header of a stream of sensor columns (lines 441 and 449).
SensorHeaders(names) == <<"timestamp">> \o SortedNames(names)

\* _ensure_temperature_csv_loggers_initialized (lines 433-450): a logger
\* that is still None is created with the names of this call.
EnsureTemperatureCsvLoggersInitialized_Refresh(loggers, names, domain_sensors) ==
    [ control     |-> loggers.control,
      temperature |-> IF names # {} THEN Some(SensorHeaders(names))
                      ELSE loggers.temperature,
      input_error |->
          [ d \in DOMAIN loggers.input_error |->
              IF d \in DOMAIN domain_sensors
              THEN Some(SensorHeaders(DOMAIN domain_sensors[d]))
              ELSE loggers.input_error[d] ] ]
EnsureTemperatureCsvLoggersInitialized(loggers, names, domain_sensors) ==
    [ control     |-> loggers.control,
      temperature |-> IF IsNone(loggers.temperature) /\ names # {}
                      THEN Some(SensorHeaders(names))
                      ELSE loggers.temperature,
      input_error |->
          [ d \in DOMAIN loggers.input_error |->
              IF /\ d \in DOMAIN domain_sensors
                 /\ IsNone(loggers.input_error[d])
                 /\ DOMAIN domain_sensors[d] # {}
              THEN Some(SensorHeaders(DOMAIN domain_sensors[d]))
              ELSE loggers.input_error[d] ] ]

\* _log_temperature_sensors (lines 382-431): the loggers it leaves behind.
LogTemperatureSensors(loggers, thermals) ==
    EnsureTemperatureCsvLoggersInitialized(loggers,
        DOMAIN AllSensorTemps(thermals), DomainSensors(thermals))

\* Lines 500-507: the errors raised before get_thermals() of line 510.
RaisedBeforeThermals(error) ==
    error \in { "ValueError: no thermal info", "ValueError: interval",
                "ZeroDivisionError" }

\* Lines 500-513: the loggers after a run of _execute_raise_on_error that
\* ended with the given error ("none": it returned).
LoggersAfter(loggers, thermals, error) ==
    IF RaisedBeforeThermals(error) THEN loggers
    ELSE LogTemperatureSensors(loggers, thermals)

\* The columns of the control stream (lines 326-339), each a pair of a
\* domain and a suffix.
DomainColumns(d) ==
    << <<d, "sensor">>, <<d, "P">>, <<d, "I">>, <<d, "D">>,
       <<d, "raw_output">>, <<d, "saturated_output">>,
       <<d, "frozen_integral">> >>

RECURSIVE ControlColumns(_)
ControlColumns(domains) ==
    IF domains = <<>> THEN <<>>
    ELSE DomainColumns(Head(domains)) \o ControlColumns(Tail(domains))

\* The loggers after __init__ (lines 272-276).
NoLoggers == [control |-> None, temperature |-> None, input_error |-> <<>>]

\* _initialize_control_csv_logger and _initialize_temperature_csv_loggers
\* (lines 318-358) for a policy with the given, non-empty set of domains.
InitializeCsvLoggers(domains) ==
    [ control     |-> Some(<< <<"", "timestamp">> >>
                           \o ControlColumns(SortedNames(domains))
                           \o << <<"", "selected_domain">>,
                                 <<"", "configured_fan_speed">> >>),
      temperature |-> None,
      input_error |-> [d \in domains |-> None] ]

-----------------------------------------------------------------------------
(* Inputs of the engine                                                    *)

Thermal(name, has_pid, controlled, domain, temperature, setpoint) ==
    [name |-> name, has_pid |-> has_pid, controlled |-> controlled,
     domain |-> domain, temperature |-> temperature, setpoint |-> setpoint]

\* The sensors of the chassis, each in the conditions it can be read in:
\* name, has the PID capability, is_controlled_by_pid(), get_pid_domain(),
\* get_temperature(), get_pid_setpoint().  amb0 is a sensor that is not
\* PID-controlled, psu0 one whose class has no is_controlled_by_pid; the
\* fields given to psu0 beyond its name are never read by the engine.
ThermalStates ==
    { Thermal("asic0", TRUE, TRUE, "asic", Some(60), Some(50)),
      Thermal("asic0", TRUE, TRUE, "asic", Some(48), Some(50)),
      Thermal("asic0", TRUE, TRUE, "asic", None, Some(50)),
      Thermal("asic1", TRUE, TRUE, "asic", Some(55), Some(50)),
      Thermal("asic1", TRUE, TRUE, "asic", Some(55), None),
      Thermal("cpu0", TRUE, TRUE, "cpu", Some(52), Some(50)),
      Thermal("amb0", TRUE, FALSE, "asic", Some(90), Some(50)),
      Thermal("psu0", FALSE, TRUE, "cpu", Some(95), Some(50)) }

\* What get_thermals() can return: up to MaxSensors distinct sensors.
ThermalLists ==
    { l \in UNION { [1..n -> ThermalStates] : n \in 0..MaxSensors } :
        \A i, j \in 1..Len(l) : i # j => l[i].name # l[j].name }

ShortThermalLists == { l \in ThermalLists : Len(l) <= 1 }

\* Outcomes of the first and of the second set_speed call on a fan within
\* one tick: a present fan, an absent fan, a fan whose driver raises, and a
\* fan whose driver raises once.
SteadyFans == { <<"ok", "ok">>, <<"absent", "absent">> }
FanBehaviours == SteadyFans \cup { <<"throw", "throw">>, <<"throw", "ok">> }

\* What get_fans() can return: up to MaxFans fans.
FanLists == UNION { [1..n -> FanBehaviours] : n \in 0..MaxFans }
SteadyFanLists == UNION { [1..n -> SteadyFans] : n \in 0..MaxFans }

DomainConfig(name, KP, KI, KD, margin) ==
    [name |-> name, KP |-> KP, KI |-> KI, KD |-> KD,
     extra_setpoint_margin |-> margin]

\* Policies accepted by load_from_json (validate_json, lines 452-474):
\* pid_domains in the order of the JSON object.
\* Two domains with the same gains.
TwinGainPolicy ==
    [ pid_domains |-> << DomainConfig("cpu", RInt(1), Rat(1, 10), RInt(2), Zero),
                         DomainConfig("asic", RInt(1), Rat(1, 10), RInt(2), Zero) >>,
      interval |-> 5, fan_min |-> RInt(40), fan_max |-> RInt(100) ]

\* Two domains with different gains, one with a setpoint margin.
MixedGainPolicy ==
    [ pid_domains |-> << DomainConfig("asic", RInt(2), Rat(1, 2), RInt(1), RInt(3)),
                         DomainConfig("cpu", RInt(1), RInt(1), RInt(0), Zero) >>,
      interval |-> 5, fan_min |-> RInt(30), fan_max |-> RInt(90) ]

\* Two domains with the same, high gains: a small error saturates the output.
HighGainPolicy ==
    [ pid_domains |-> << DomainConfig("cpu", RInt(10), RInt(1), RInt(1), Zero),
                         DomainConfig("asic", RInt(10), RInt(1), RInt(1), Zero) >>,
      interval |-> 5, fan_min |-> RInt(40), fan_max |-> RInt(100) ]

Policies == { TwinGainPolicy, MixedGainPolicy }

\* Policies whose two domains share their gains.
TwinPolicies == { TwinGainPolicy, HighGainPolicy }

Intervals == {5, 10}

NoPolicy == [pid_domains |-> <<>>, interval |-> 0,
             fan_min |-> Zero, fan_max |-> Zero]

NoTick ==
    [result |-> "none", error |-> "none", info |-> FALSE, interval |-> 0,
     thermals |-> <<>>, fans |-> <<>>, before |-> <<>>, groups |-> <<>>,
     outputs |-> <<>>, max_output |-> Zero, max_domain |-> "",
     final_speed |-> Zero, selected_domain |-> "",
     calls |-> <<>>, failsafe_calls |-> <<>>]

\* No load_from_json call recorded.
NoLoad ==
    [called |-> FALSE, json |-> <<>>, error |-> "none",
     pidDomains |-> None, constants |-> None, fan_limits |-> None]

LoadIdle == loaded = NoLoad

\* No log_row call recorded, no CsvLogger constructed.
NoLogRow ==
    [called |-> FALSE, debug |-> FALSE, size |-> 0, faults |-> {},
     before |-> None, trimmed |-> None, row |-> 0, raised |-> "none"]

NoCsv == [file |-> None, rows |-> 0, calls |-> 0, last |-> NoLogRow]

CsvIdle == csv = NoCsv

\* No call made on the device; its blackbox holds no record.
NoDpmCall == [name |-> "none", input |-> <<>>, output |-> <<>>]

NoDpm == [blob |-> <<49>>, cleared |-> FALSE, last |-> NoDpmCall]

DpmIdle == dpm = NoDpm

\* The names of the domains of a policy.
PolicyDomains(cfg) ==
    { cfg.pid_domains[k].name : k \in 1..Len(cfg.pid_domains) }

EngineIdle ==
    /\ policy = NoPolicy
    /\ pidControllers = <<>>
    /\ extra_setpoint_margin = <<>>
    /\ ticks = 0
    /\ tick = NoTick
    /\ csv_loggers = NoLoggers

PIDIdle ==
    /\ pid = NoController
    /\ pid_status = "none"
    /\ hist = <<>>

\* The state after __init__ (lines 262-280) and load_from_json of a valid
\* policy (lines 282-316).
Init ==
    /\ policy \in Policies
    /\ pidControllers = <<>>
    /\ extra_setpoint_margin = <<>>
    /\ ticks = 0
    /\ tick = NoTick
    /\ csv_loggers = InitializeCsvLoggers(PolicyDomains(policy))
    /\ PIDIdle
    /\ LoadIdle
    /\ CsvIdle
    /\ DpmIdle

\* execute (lines 476-491): the control path of one tick.  When _execute_raise_on_error raises,
\* the fans are commanded FAN_MAX_SPEED and the error is raised again; an
\* error of that second fan-out leaves execute in its place.  tick records
\* the inputs of the tick, the controllers before it, what r computed, the
\* set_speed calls of line 569 (calls) and of line 490 (failsafe_calls).
\* What the tick does to the CSV loggers is added by the action that takes
\* the tick.
ExecuteEnds(info, interval, thermals, fans, r, failsafe) ==
    /\ pidControllers' = r.ctrls
    /\ extra_setpoint_margin' = r.margins
    /\ tick' = [ result          |-> IF r.error = "none" THEN "ok" ELSE "raised",
                 error           |-> r.error,
                 info            |-> info,
                 interval        |-> interval,
                 thermals        |-> thermals,
                 fans            |-> fans,
                 before          |-> pidControllers,
                 groups          |-> r.groups,
                 outputs         |-> r.outputs,
                 max_output      |-> r.max_output,
                 max_domain      |-> r.max_domain,
                 final_speed     |-> r.final_speed,
                 selected_domain |-> r.selected_domain,
                 calls           |-> r.calls,
                 failsafe_calls  |-> failsafe.calls ]
    /\ ticks' = ticks + 1
    /\ UNCHANGED <<policy, pidVars, loadVars, csvVars, dpmVars>>

ExecuteWith(info, interval, thermals, fans, r) ==
    ExecuteEnds(info, interval, thermals, fans, r, FailSafe(fans, r))

Execute(info, interval, thermals, fans) ==
    ExecuteWith(info, interval, thermals, fans,
        ExecuteRaiseOnError(policy, pidControllers, extra_setpoint_margin,
                            info, interval, thermals, fans))

\* No statement of the control path reads the CSV loggers.  Spec and SpecTwin
\* follow the control state only and keep csv_loggers as load_from_json left
\* it; SpecTelemetry below follows the loggers through the ticks.
ControlOnly == UNCHANGED telemetryVars

\* Lines 500-513 of the tick just taken: the loggers it leaves behind.
WithTelemetry(thermals) ==
    csv_loggers' = LoggersAfter(csv_loggers, thermals, tick'.error)

\* The policy scheduler invokes execute once per interval on a single
\* thread (section 5 of the specification): a tick starts only after the
\* previous one has returned or raised and the interval has passed.
TickDue == tick.result = "none" /\ ticks < MaxTicks

\* A tick whose thermal_info_dict holds no ThermalInfo (lines 500-502).
TickWithoutThermalInfo ==
    /\ TickDue
    /\ \E fans \in FanLists : Execute(FALSE, policy.interval, <<>>, fans)
    /\ ControlOnly

\* A tick with at most one sensor, any reported interval and any fans.
TickWithFewSensors ==
    /\ TickDue
    /\ \E interval \in Intervals, thermals \in ShortThermalLists,
          fans \in FanLists :
          Execute(TRUE, interval, thermals, fans)
    /\ ControlOnly

\* A tick with any sensors, on the policy's interval, with fans whose
\* drivers do not raise.
TickWithSteadyFans ==
    /\ TickDue
    /\ \E thermals \in ThermalLists, fans \in SteadyFanLists :
          Execute(TRUE, policy.interval, thermals, fans)
    /\ ControlOnly

\* The scheduler waits for the next interval; the report of the finished
\* tick is dropped, the engine's own state stays.
Wait ==
    /\ tick.result # "none"
    /\ tick' = NoTick
    /\ UNCHANGED <<policy, pidControllers, extra_setpoint_margin, ticks,
                   pidVars, loadVars, telemetryVars, csvVars, dpmVars>>

Next ==
    \/ TickWithoutThermalInfo
    \/ TickWithFewSensors
    \/ TickWithSteadyFans
    \/ Wait

Spec == Init /\ [][Next]_vars

\* The engine loaded with a policy whose domains share their gains.
InitTwin ==
    /\ policy \in TwinPolicies
    /\ pidControllers = <<>>
    /\ extra_setpoint_margin = <<>>
    /\ ticks = 0
    /\ tick = NoTick
    /\ csv_loggers = InitializeCsvLoggers(PolicyDomains(policy))
    /\ PIDIdle
    /\ LoadIdle
    /\ CsvIdle
    /\ DpmIdle

SpecTwin == InitTwin /\ [][Next]_vars

-----------------------------------------------------------------------------
(* load_from_json and validate_json                                        *)

\* The argument of load_from_json.  Each top-level key is present or not;
\* pid_domains is given by its number of domains, constants by its
\* "interval" entry (None when the key is missing) and whether it holds
\* another entry, fan_limits by its "min" and "max" entries.
PolicyJsons ==
    [ has_pid_domains : BOOLEAN,
      pid_domains     : 0..2,
      has_constants   : BOOLEAN,
      interval        : { None, Some(-5), Some(0), Some(5) },
      other_constant  : BOOLEAN,
      has_fan_limits  : BOOLEAN,
      min             : { None, Some(20), Some(30), Some(60), Some(100) },
      max             : { None, Some(30), Some(50), Some(100), Some(110) } ]

\* Lines 292-295: the three subscripts, in order; the first missing key
\* raises KeyError and leaves the later fields as __init__ set them.
AssignFields(json) ==
    [ error      |-> IF json.has_pid_domains /\ json.has_constants
                        /\ json.has_fan_limits
                     THEN "none" ELSE "KeyError",
      pidDomains |-> IF json.has_pid_domains
                     THEN Some(json.pid_domains) ELSE None,
      constants  |-> IF json.has_pid_domains /\ json.has_constants
                     THEN Some([interval |-> json.interval,
                                other    |-> json.other_constant])
                     ELSE None,
      fan_limits |-> IF json.has_pid_domains /\ json.has_constants
                        /\ json.has_fan_limits
                     THEN Some([min |-> json.min, max |-> json.max])
                     ELSE None ]

\* Python truth value of an optional integer: None and 0 are false.
Truthy(o) == ~IsNone(o) /\ Val(o) # 0

\* validate_json (lines 452-474) on the fields just assigned.
ValidateJson(pidDomains, constants, fan_limits) ==
    IF pidDomains = 0 THEN "ValueError: no PID domains"
    ELSE IF IsNone(constants.interval) /\ ~constants.other
    THEN "ValueError: no constants"
    ELSE IF IsNone(fan_limits.min) /\ IsNone(fan_limits.max)
    THEN "ValueError: no fan limits"
    ELSE IF IsNone(fan_limits.min) \/ IsNone(fan_limits.max)
    THEN "ValueError: no min/max"
    ELSE IF Val(fan_limits.min) > Val(fan_limits.max)
    THEN "ValueError: min greater than max"
    ELSE IF Val(fan_limits.min) < FAN_MIN_SPEED
            \/ Val(fan_limits.max) > FAN_MAX_SPEED
    THEN "ValueError: out of range"
    ELSE IF ~Truthy(constants.interval)
    THEN "ValueError: interval"
    ELSE "none"

\* load_from_json (lines 282-312) up to the end of the validation.
LoadResult(json, assigned) ==
    [ called     |-> TRUE,
      json       |-> json,
      error      |-> IF assigned.error # "none" THEN assigned.error
                     ELSE ValidateJson(Val(assigned.pidDomains),
                                       Val(assigned.constants),
                                       Val(assigned.fan_limits)),
      pidDomains |-> assigned.pidDomains,
      constants  |-> assigned.constants,
      fan_limits |-> assigned.fan_limits ]

\* Lines 314-316: a policy that passed the validation gets its loggers; the
\* domains of a policy with n domains are named here "asic" and "cpu".
LoadedLoggers(result) ==
    IF result.error # "none" THEN NoLoggers
    ELSE InitializeCsvLoggers(
             { <<"asic", "cpu">>[k] : k \in 1..Val(result.pidDomains) })

LoadFromJson(json) ==
    /\ ~loaded.called
    /\ loaded' = LoadResult(json, AssignFields(json))
    /\ csv_loggers' = LoadedLoggers(LoadResult(json, AssignFields(json)))
    /\ UNCHANGED <<engineVars, pidVars, csvVars, dpmVars>>

\* A freshly constructed action object (lines 262-280).
LoadInit ==
    /\ LoadIdle
    /\ EngineIdle
    /\ PIDIdle
    /\ CsvIdle
    /\ DpmIdle

LoadNext == \E json \in PolicyJsons : LoadFromJson(json)

SpecLoad == LoadInit /\ [][LoadNext]_vars

-----------------------------------------------------------------------------
(* A single controller driven by a sequence of errors                      *)

\* Constructor arguments <<interval, KP, KI, KD, output_min, output_max>>.
PIDParams ==
    { <<5, RInt(1),     Rat(1, 10), RInt(2),     RInt(40), RInt(100)>>,
      <<5, Rat(1, 10),  Rat(1, 10), Rat(1, 10),  RInt(40), RInt(100)>>,
      <<1, RInt(1),     RInt(1),    RInt(1),     RInt(30), RInt(100)>>,
      <<5, RInt(2),     RInt(2),    RInt(2),     RInt(40), RInt(100)>>,
      <<5, RInt(1),     RInt(1),    RInt(10),    RInt(40), RInt(100)>>,
      <<5, RInt(1),     RInt(0),    RInt(1),     RInt(40), RInt(100)>> }

PIDErrors == { RInt(-10), RInt(0), RInt(3), RInt(10), RInt(50) }

PIDInit ==
    /\ PIDIdle
    /\ EngineIdle
    /\ LoadIdle
    /\ CsvIdle
    /\ DpmIdle

\* PIDController.__init__ (lines 707-753).
PIDConstruct(p) ==
    /\ pid_status = "none"
    /\ IF PIDConstructRaises(p[3])
       THEN /\ pid_status' = "ZeroDivisionError"
            /\ pid' = [pid EXCEPT !.interval = p[1], !.kp = p[2], !.ki = p[3],
                                  !.kd = p[4], !.output_min = p[5],
                                  !.output_max = p[6]]
       ELSE /\ pid_status' = "ok"
            /\ pid' = PIDController(p[1], p[2], p[3], p[4], p[5], p[6])
    /\ UNCHANGED <<hist, engineVars, loadVars, telemetryVars, csvVars, dpmVars>>

\* PIDController.compute_detailed (lines 771-828), one call.
PIDCompute(error) ==
    /\ pid_status = "ok"
    /\ Len(hist) < MaxCalls
    /\ LET r == ComputeDetailed(pid, error)
       IN  /\ pid' = r.controller
           /\ hist' = Append(hist,
                  [ error           |-> error,
                    before          |-> pid,
                    after           |-> r.controller,
                    output          |-> r.output,
                    compute         |-> Compute(pid, error),
                    raw             |-> r.raw,
                    derivative      |-> r.derivative,
                    details         |-> r.details ])
    /\ UNCHANGED <<pid_status, engineVars, loadVars, telemetryVars, csvVars, dpmVars>>

PIDNext ==
    \/ \E p \in PIDParams : PIDConstruct(p)
    \/ \E e \in PIDErrors : PIDCompute(e)

SpecPID == PIDInit /\ [][PIDNext]_vars

-----------------------------------------------------------------------------
(* Properties of a single controller, checked under SpecPID                *)

Clamp(x, lo, hi) == IF RLt(x, lo) THEN lo ELSE IF RLt(hi, x) THEN hi ELSE x

Calls == 1..Len(hist)

\* The condition of line 806 restated on the recorded values of call h.
UpdateCondition(h) ==
    /\ (RLe(h.raw, h.before.output_max) \/ RLt(h.error, Zero))
    /\ (RLe(h.before.output_min, h.raw) \/ RLt(Zero, h.error))

\* KI times the integral that entered the raw output of call h.
IntegralContribution(h) ==
    RSub(RSub(h.raw, RMul(h.before.kp, h.error)),
         RMul(h.before.kd, h.derivative))

IsS1 ==
    /\ pid_status = "ok"
    /\ pid.interval = 5 /\ pid.kp = RInt(1) /\ pid.ki = Rat(1, 10)
    /\ pid.kd = RInt(2) /\ pid.output_min = RInt(40)
    /\ pid.output_max = RInt(100)

\* C3: every value returned by compute / compute_detailed lies in
\* [output_min, output_max], for every sequence of errors.
C3_OutputClamped ==
    \A i \in Calls :
        /\ RLe(pid.output_min, hist[i].output)
        /\ RLe(hist[i].output, pid.output_max)
        /\ RLe(pid.output_min, hist[i].compute)
        /\ RLe(hist[i].compute, pid.output_max)

C3_Witness ==
    \E i, j \in Calls :
        /\ RLt(pid.output_max, hist[i].raw)
        /\ RLt(hist[j].raw, pid.output_min)

\* C4: with I' = integral + error*dt and u the raw output, the stored
\* integral becomes I' when (u <= max or error < 0) and (u >= min or
\* error > 0); otherwise it is exactly the integral before the call, and
\* frozen_integral is true exactly in that case.
C4_ConditionalIntegration ==
    \A i \in Calls :
        LET h  == hist[i]
            Ip == RAdd(h.before.integral,
                       RMul(h.error, RInt(h.before.interval)))
        IN  /\ UpdateCondition(h) => h.after.integral = Ip
            /\ ~UpdateCondition(h) => h.after.integral = h.before.integral
            /\ h.details.frozen_integral <=> ~UpdateCondition(h)

C4_Witness ==
    /\ \E i \in Calls : /\ hist[i].details.frozen_integral
                        /\ hist[i].error # Zero
                        /\ hist[i].after.integral = hist[i].before.integral
    /\ \E j \in Calls : /\ RLt(hist[j].raw, pid.output_min)
                        /\ ~hist[j].details.frozen_integral
                        /\ hist[j].after.integral # hist[j].before.integral

\* The case of C5: KP = KI = KD > 0, call i-1 returned y = 100 and call i
\* has error = -10.
UnwindCase(i) ==
    /\ i \in Calls /\ i > 1
    /\ pid.kp = pid.ki /\ pid.ki = pid.kd /\ RLt(Zero, pid.kp)
    /\ hist[i - 1].output = RInt(100)
    /\ hist[i].error = RInt(-10)

\* C5 as stated: after saturation at y = 100 with KP = KI = KD > 0, a call
\* with error = -10 is never frozen and the stored integral decreases.
C5_UnwindNeverFrozen ==
    \A i \in Calls :
        UnwindCase(i) =>
            /\ ~hist[i].details.frozen_integral
            /\ RLt(hist[i].after.integral, hist[i].before.integral)

\* C5 amended: in that case the call is frozen exactly when its raw output
\* is below output_min; when u >= min the integral decreases by 10*dt, and
\* when u < min it is held.
C5_UnwindUnlessBelowMin ==
    \A i \in Calls :
        UnwindCase(i) =>
            LET h == hist[i]
                low == RLt(h.raw, pid.output_min)
            IN  /\ h.details.frozen_integral <=> low
                /\ ~low => /\ h.after.integral =
                                RSub(h.before.integral, RInt(10 * pid.interval))
                           /\ RLt(h.after.integral, h.before.integral)
                /\ low => h.after.integral = h.before.integral

C5_Witness ==
    \E i \in Calls :
        /\ UnwindCase(i)
        /\ ~hist[i].details.frozen_integral
        /\ RLt(hist[i].after.integral, hist[i].before.integral)

\* C6 as stated: S1 (interval 5, KP 1, KI 0.1, KD 2, limits [40,100]), first
\* call with error +3 gives P = 3, D = 0, integral contribution 70, u = 73,
\* y = 73, frozen_integral = false.
C6_S1AsStated ==
    (IsS1 /\ Len(hist) >= 1 /\ hist[1].error = RInt(3)) =>
        /\ hist[1].before.integral = RInt(700)
        /\ hist[1].details.P = RInt(3)
        /\ hist[1].details.D = Zero
        /\ IntegralContribution(hist[1]) = RInt(70)
        /\ hist[1].details.raw_output = RInt(73)
        /\ hist[1].details.saturated_output = RInt(73)
        /\ hist[1].output = RInt(73)
        /\ ~hist[1].details.frozen_integral

\* C6 amended: the seed integral is 700, and the first call with error +3
\* gives P = 3, D = 0, integral contribution 71.5 (KI times the candidate
\* integral 715), u = 74.5, y = 74.5, frozen_integral = false, and stores
\* the integral 715.
C6_S1FirstTick ==
    (IsS1 /\ Len(hist) >= 1 /\ hist[1].error = RInt(3)) =>
        /\ hist[1].before.integral = RInt(700)
        /\ hist[1].details.P = RInt(3)
        /\ hist[1].details.D = Zero
        /\ IntegralContribution(hist[1]) = Rat(143, 2)
        /\ hist[1].details.raw_output = Rat(149, 2)
        /\ hist[1].details.saturated_output = Rat(149, 2)
        /\ hist[1].output = Rat(149, 2)
        /\ ~hist[1].details.frozen_integral
        /\ hist[1].details.I = RInt(715)
        /\ hist[1].after.integral = RInt(715)

C6_Witness ==
    /\ IsS1 /\ Len(hist) >= 1 /\ hist[1].error = RInt(3)
    /\ hist[1].output = Rat(149, 2)

\* The run of C7: S1's first tick, then error +50 on every later call.
S2Run ==
    /\ IsS1 /\ Len(hist) >= 1 /\ hist[1].error = RInt(3)
    /\ \A m \in 2..Len(hist) : hist[m].error = RInt(50)

\* C7: in that run the first call whose raw output exceeds max reports
\* frozen_integral = true and leaves the stored integral as it was before
\* the call, and the integral keeps that value on every further call.
C7_SaturationFreeze ==
    S2Run =>
        \A k \in 2..Len(hist) :
            ( /\ RLt(pid.output_max, hist[k].raw)
              /\ \A m \in 2..(k - 1) : RLe(hist[m].raw, pid.output_max) ) =>
                /\ hist[k].details.frozen_integral
                /\ hist[k].after.integral = hist[k].before.integral
                /\ hist[k].before.integral = hist[1].after.integral
                /\ \A j \in k..Len(hist) :
                      /\ hist[j].after.integral = hist[k].before.integral
                      /\ hist[j].details.frozen_integral

C7_Witness ==
    /\ S2Run /\ Len(hist) >= 4
    /\ RLt(pid.output_max, hist[2].raw)
    /\ pid.integral = RInt(715)

\* C8: right after construction with KI # 0 the stored integral is
\* (min+max)/2/KI, and a first call with error 0 returns (min+max)/2; with
\* min = 40, max = 100, KI = 2 the integral is 35 and the first output 70.
C8_Seeding ==
    pid_status = "ok" =>
        LET mid  == RDiv(RAdd(pid.output_min, pid.output_max), RInt(2))
            seed == IF hist = <<>> THEN pid.integral
                    ELSE hist[1].before.integral
            ex   == /\ pid.output_min = RInt(40)
                    /\ pid.output_max = RInt(100)
                    /\ pid.ki = RInt(2)
        IN  /\ pid.ki # Zero
            /\ RMul(seed, pid.ki) = mid
            /\ ex => seed = RInt(35)
            /\ (Len(hist) >= 1 /\ hist[1].error = Zero) =>
                  /\ hist[1].output = mid
                  /\ hist[1].compute = mid
                  /\ ex => hist[1].output = RInt(70)

C8_Witness ==
    /\ pid_status = "ok" /\ pid.ki = RInt(2)
    /\ pid.output_min = RInt(40) /\ pid.output_max = RInt(100)
    /\ Len(hist) >= 1 /\ hist[1].error = Zero /\ hist[1].output = RInt(70)

\* A window i..j of consecutive calls, after the first call, with error 0.
ZeroWindow(i, j) ==
    /\ i \in Calls /\ j \in Calls /\ 1 < i /\ i <= j
    /\ \A m \in i..j : hist[m].error = Zero

\* C9 as stated: every call of a zero-error window returns
\* KI * integral_0 and its derivative term is 0.
C9_ZeroWindowAsStated ==
    \A i, j \in Calls :
        ZeroWindow(i, j) =>
            /\ hist[j].output = RMul(pid.ki, hist[i].before.integral)
            /\ hist[j].derivative = Zero

\* C9 amended: in a zero-error window the stored integral stays integral_0;
\* every call other than a first call that follows a non-zero error has
\* derivative 0 and returns clamp(KI * integral_0, min, max); a first call
\* that follows the error e has derivative -e/dt and returns
\* clamp(KI * integral_0 - KD * e / dt, min, max).
C9_ZeroWindow ==
    \A i, j \in Calls :
        ZeroWindow(i, j) =>
            LET I0 == hist[i].before.integral
                e  == hist[i - 1].error
                d  == IF j = i
                      THEN RDiv(RSub(Zero, e), RInt(pid.interval))
                      ELSE Zero
            IN  /\ hist[j].after.integral = I0
                /\ hist[j].derivative = d
                /\ hist[j].output =
                      Clamp(RAdd(RMul(pid.ki, I0), RMul(pid.kd, d)),
                            pid.output_min, pid.output_max)

C9_Witness ==
    \E i, j \in Calls :
        /\ ZeroWindow(i, j) /\ i < j
        /\ hist[i - 1].error # Zero
        /\ hist[i].derivative # Zero
        /\ hist[j].derivative = Zero
        /\ RLt(pid.output_max, RMul(pid.ki, hist[i].before.integral))
        /\ hist[j].output = pid.output_max

-----------------------------------------------------------------------------
(* Properties of the engine, checked under Spec                            *)

\* Fan i received set_speed(FAN_MAX_SPEED) from the fail-safe of this tick.
CommandedMax(i) ==
    \E k \in 1..Len(tick.failsafe_calls) :
        /\ tick.failsafe_calls[k].fan = i
        /\ tick.failsafe_calls[k].speed = RInt(FAN_MAX_SPEED)

\* The fans whose set_speed raised during _execute_raise_on_error.
ThrowingFans ==
    { tick.calls[k].fan : k \in { c \in 1..Len(tick.calls) :
                                    tick.calls[c].outcome = "throw" } }

\* C1: whenever execute ends by raising, whatever the cause, every fan of
\* the fan list has been commanded set_speed(100) by the fail-safe before
\* the error leaves execute.
C1_FailSafeAllFans ==
    tick.result = "raised" =>
        \A i \in 1..Len(tick.fans) : CommandedMax(i)

\* C2: if one fan's set_speed raises during the tick, then wherever that fan
\* stands in the list, every other fan (before it and after it) is commanded
\* set_speed(100) before execute re-raises.
C2_RemainingFansAtMax ==
    \A k \in ThrowingFans :
        (\A i \in 1..Len(tick.fans) : i # k => tick.fans[i] \in SteadyFans)
            => \A i \in 1..Len(tick.fans) : i # k => CommandedMax(i)

\* The largest PID output among the domains computed this tick.
IsMaxOutput(v) ==
    /\ \E k \in 1..Len(tick.outputs) : tick.outputs[k].pid_output = v
    /\ \A k \in 1..Len(tick.outputs) : RLe(tick.outputs[k].pid_output, v)

\* C10: on every successful tick each fan of the list receives exactly one
\* set_speed, and its argument is the largest PID output of the domains
\* computed this tick, clamped to the fan limits: the same value for all.
C10_FusedSpeedToEveryFan ==
    tick.result = "ok" =>
        /\ Len(tick.calls) = Len(tick.fans)
        /\ \A i \in 1..Len(tick.fans) :
              /\ tick.calls[i].fan = i
              /\ \E v \in { tick.outputs[k].pid_output :
                              k \in 1..Len(tick.outputs) } :
                    /\ IsMaxOutput(v)
                    /\ tick.calls[i].speed =
                           Clamp(v, policy.fan_min, policy.fan_max)

\* A successful tick with two fans and two domains whose outputs differ.
C10_Witness ==
    /\ tick.result = "ok"
    /\ Len(tick.fans) = 2
    /\ Len(tick.outputs) = 2
    /\ RLt(tick.outputs[1].pid_output, tick.outputs[2].pid_output)
    /\ tick.calls[1].speed = tick.outputs[2].pid_output
    /\ tick.calls[2].speed = tick.calls[1].speed

\* The entry of pid_outputs for domain d in this tick.
OutputOf(d) ==
    tick.outputs[CHOOSE k \in 1..Len(tick.outputs) : tick.outputs[k].domain = d]

HasOutput(d) == \E k \in 1..Len(tick.outputs) : tick.outputs[k].domain = d

SameGains(a, b) == a.KP = b.KP /\ a.KI = b.KI /\ a.KD = b.KD

\* Scenario S4: a successful tick of two domains with identical gains and
\* identical controller state, cpu's worst error +2, asic's worst error +5.
S4Case ==
    /\ tick.result = "ok"
    /\ Len(policy.pid_domains) = 2
    /\ SameGains(policy.pid_domains[1], policy.pid_domains[2])
    /\ (DOMAIN tick.before = {} \/ tick.before["cpu"] = tick.before["asic"])
    /\ HasOutput("cpu") /\ OutputOf("cpu").max_error = RInt(2)
    /\ HasOutput("asic") /\ OutputOf("asic").max_error = RInt(5)

S4SpeedIsAsic ==
    /\ tick.final_speed = OutputOf("asic").pid_output
    /\ \A i \in 1..Len(tick.calls) : tick.calls[i].speed = tick.final_speed

\* C11 as stated: in scenario S4 the commanded speed is asic's output and
\* selected_domain is "asic" above the floor and "None" otherwise, whatever
\* the order of the sensors.
C11_S4AsStated ==
    S4Case =>
        /\ S4SpeedIsAsic
        /\ tick.selected_domain =
               IF RLt(policy.fan_min, tick.final_speed) THEN "asic" ELSE "None"

\* C11 amended: in scenario S4 the commanded speed is asic's output;
\* selected_domain is "None" at the floor, "asic" above it when asic's
\* output is strictly larger than cpu's or an asic sensor is listed before
\* every cpu sensor, and "cpu" when both outputs are equal (both saturated)
\* and a cpu sensor is listed first.
C11_S4Selection ==
    S4Case =>
        /\ S4SpeedIsAsic
        /\ tick.selected_domain =
               IF RLe(tick.final_speed, policy.fan_min) THEN "None"
               ELSE IF \/ RLt(OutputOf("cpu").pid_output,
                              OutputOf("asic").pid_output)
                       \/ tick.outputs[1].domain = "asic"
               THEN "asic"
               ELSE "cpu"

\* Scenario S4 with the cpu sensor listed first and asic winning.
C11_Witness ==
    /\ S4Case
    /\ tick.outputs[1].domain = "cpu"
    /\ RLt(OutputOf("cpu").pid_output, OutputOf("asic").pid_output)
    /\ tick.selected_domain = "asic"
    /\ Len(tick.calls) = 2

\* C12: on every successful tick selected_domain is "None" exactly when the
\* commanded fan speed is at or below fan_limits.min, and otherwise it names
\* a domain whose PID output is the largest of the tick.
C12_SelectedDomain ==
    tick.result = "ok" =>
        /\ \A i \in 1..Len(tick.calls) : tick.calls[i].speed = tick.final_speed
        /\ (tick.selected_domain = "None")
               <=> RLe(tick.final_speed, policy.fan_min)
        /\ tick.selected_domain # "None" =>
               /\ HasOutput(tick.selected_domain)
               /\ IsMaxOutput(OutputOf(tick.selected_domain).pid_output)

\* A successful tick whose speed sits on the floor.
C12_Witness ==
    /\ tick.result = "ok"
    /\ Len(tick.calls) > 0
    /\ tick.calls[1].speed = policy.fan_min
    /\ tick.selected_domain = "None"
    /\ Len(tick.outputs) > 0

\* The names of the configured domains, and the margin configured for d.
ConfiguredDomains ==
    { policy.pid_domains[k].name : k \in 1..Len(policy.pid_domains) }

ConfiguredMargin(d) ==
    policy.pid_domains[CHOOSE k \in 1..Len(policy.pid_domains) :
                           policy.pid_domains[k].name = d].extra_setpoint_margin

\* The sensors of this tick that belong to domain d: those with the
\* capability that report being PID-controlled; and those among them that
\* have both a temperature and a setpoint.
Candidates(d) ==
    { i \in 1..Len(tick.thermals) :
        /\ tick.thermals[i].has_pid
        /\ tick.thermals[i].controlled
        /\ tick.thermals[i].domain = d }

Usable(d) ==
    { i \in Candidates(d) :
        /\ tick.thermals[i].temperature # None
        /\ tick.thermals[i].setpoint # None }

SensorError(i, d) ==
    RSub(RInt(Val(tick.thermals[i].temperature)
              - Val(tick.thermals[i].setpoint)),
         ConfiguredMargin(d))

\* The tick got past the initialisation of the controllers.
ReachedGrouping ==
    /\ tick.result # "none"
    /\ tick.info
    /\ tick.error \notin { "ValueError: interval", "ZeroDivisionError" }

\* C13: the error fed to a domain's controller is the largest of
\* temperature - setpoint - extra_setpoint_margin over the domain's sensors
\* that have both readings; a sensor lacking one neither contributes nor
\* fails the tick as long as another sensor of the domain is usable.
C13_WorstUsableSensor ==
    /\ \A k \in 1..Len(tick.outputs) :
          /\ \E i \in Usable(tick.outputs[k].domain) :
                tick.outputs[k].max_error
                    = SensorError(i, tick.outputs[k].domain)
          /\ \A j \in Usable(tick.outputs[k].domain) :
                RLe(SensorError(j, tick.outputs[k].domain),
                    tick.outputs[k].max_error)
          /\ pidControllers[tick.outputs[k].domain].prev_error
                 = tick.outputs[k].max_error
    /\ (/\ ReachedGrouping
        /\ \A d \in ConfiguredDomains :
              Candidates(d) # {} => Usable(d) # {})
       => /\ tick.error # "ValueError: no valid thermal"
          /\ \A d \in ConfiguredDomains : Candidates(d) # {} => HasOutput(d)

\* Scenario S5: asic0 has no temperature, asic1 drives the domain.
C13_Witness ==
    /\ tick.result = "ok"
    /\ Len(tick.thermals) = 2
    /\ tick.thermals[1].name = "asic0"
    /\ tick.thermals[1].temperature = None
    /\ Candidates("asic") = {1, 2}
    /\ Usable("asic") = {2}
    /\ OutputOf("asic").max_error = SensorError(2, "asic")
    /\ OutputOf("asic").max_error_thermal = "asic1"

\* Some domain has candidate sensors of which none has both readings.
NoUsableSensorCase ==
    /\ ReachedGrouping
    /\ \E d \in ConfiguredDomains : Candidates(d) # {} /\ Usable(d) = {}

\* C14: when a domain with candidate sensors has no sensor with both a
\* temperature and a setpoint, execute raises, no PID-derived speed reaches
\* any fan in the tick, and every fan is commanded 100.
C14_NoUsableSensorFails ==
    NoUsableSensorCase =>
        /\ tick.result = "raised"
        /\ tick.calls = <<>>
        /\ \A i \in 1..Len(tick.fans) : CommandedMax(i)

\* C15: a sensor enters a domain's candidate list only if it has the
\* PID-membership capability and reports is_controlled_by_pid true; the
\* other sensors are skipped without failing the tick; and the tick fails
\* when no domain has a candidate.
C15_Grouping ==
    ReachedGrouping =>
        /\ \A k \in 1..Len(tick.groups) :
              \A m \in 1..Len(tick.groups[k].members) :
                 /\ tick.thermals[tick.groups[k].members[m]].has_pid
                 /\ tick.thermals[tick.groups[k].members[m]].controlled
                 /\ tick.thermals[tick.groups[k].members[m]].domain
                        = tick.groups[k].domain
        /\ tick.groups = <<>> =>
              /\ tick.result = "raised"
              /\ tick.error = "ValueError: no thermals"
              /\ tick.outputs = <<>>
        /\ (\E d \in ConfiguredDomains : Candidates(d) # {}) =>
              /\ tick.groups # <<>>
              /\ tick.error # "ValueError: no thermals"

\* A successful tick whose first sensor is not PID-controlled and is left
\* out of the group of its domain.
C15_Witness ==
    /\ tick.result = "ok"
    /\ Len(tick.thermals) = 2
    /\ tick.thermals[1].name = "amb0"
    /\ tick.thermals[1].domain = "asic"
    /\ tick.groups = << [domain |-> "asic", members |-> <<2>>] >>

\* A tick with thermal info that starts without any controller and on which
\* the thermal manager reports an interval other than constants.interval.
IntervalMismatchCase ==
    /\ tick.result # "none"
    /\ tick.info
    /\ DOMAIN tick.before = {}
    /\ tick.interval # policy.interval

\* C16: such a tick fails with the configuration error, creates no
\* controller and computes no PID output; as no controller exists after it,
\* the same holds on every later tick on which the intervals still differ.
C16_IntervalMismatch ==
    IntervalMismatchCase =>
        /\ tick.result = "raised"
        /\ tick.error = "ValueError: interval"
        /\ DOMAIN pidControllers = {}
        /\ tick.outputs = <<>>
        /\ tick.calls = <<>>

\* The second of two ticks, both on a differing interval.
C16_Witness ==
    /\ IntervalMismatchCase
    /\ ticks = 2
    /\ tick.result = "raised"
    /\ Len(tick.thermals) = 1
    /\ tick.thermals[1].name = "asic0"

\* The state in which the tick just made leaves the controller c of domain
\* d: the result of one compute_detailed call on c if the tick computed the
\* domain, c itself otherwise.
StateAfterTick(d, c, outputs) ==
    LET ks == { k \in 1..Len(outputs) : outputs[k].domain = d }
    IN  IF ks = {} THEN c
        ELSE ComputeDetailed(c, outputs[CHOOSE k \in ks : TRUE].max_error).controller

\* Across any step every existing controller is kept, and its state changes
\* only by one compute_detailed call made on the state it had before.
StepKeepsState ==
    IF tick'.result = "none"
    THEN pidControllers' = pidControllers
    ELSE /\ DOMAIN pidControllers \subseteq DOMAIN pidControllers'
         /\ \A d \in DOMAIN pidControllers :
               pidControllers'[d]
                   = StateAfterTick(d, pidControllers[d], tick'.outputs)

\* Controllers appear only on a tick that starts without any, carries the
\* thermal info and reports the configured interval; such a tick creates the
\* controller of every configured domain.
StepCreatesOnce ==
    /\ DOMAIN pidControllers' # DOMAIN pidControllers =>
          /\ DOMAIN pidControllers = {}
          /\ tick'.info
          /\ tick'.interval = policy.interval
    /\ (/\ DOMAIN pidControllers = {}
        /\ tick'.result # "none"
        /\ tick'.info
        /\ tick'.interval = policy.interval)
       => DOMAIN pidControllers' = ConfiguredDomains

ReachedFanOut ==
    /\ tick.result # "none"
    /\ tick.error \in { "none", "FanException", "fan exception" }

\* calls is one pass over the fans: one set_speed(speed) per fan, in order.
OnePassOver(calls, speed) ==
    /\ Len(calls) = Len(tick.fans)
    /\ \A i \in 1..Len(calls) : calls[i].fan = i /\ calls[i].speed = speed

\* C18: over a non-empty fan list on which no set_speed raises,
\* set_all_fan_speeds calls set_speed(speed) exactly once on every fan in
\* list order and returns normally, also when some fans return false.
C18_EveryFanOnce ==
    /\ (/\ ReachedFanOut
        /\ tick.fans # <<>>
        /\ \A i \in 1..Len(tick.fans) : tick.fans[i][1] # "throw")
       => /\ tick.result = "ok"
          /\ OnePassOver(tick.calls, tick.final_speed)
    /\ (/\ tick.result = "raised"
        /\ tick.calls = <<>>
        /\ tick.fans # <<>>
        /\ \A i \in 1..Len(tick.fans) : tick.fans[i][1] # "throw")
       => OnePassOver(tick.failsafe_calls, RInt(FAN_MAX_SPEED))

\* A successful tick whose first fan is absent.
C18_Witness ==
    /\ tick.result = "ok"
    /\ Len(tick.fans) = 2
    /\ tick.calls[1].outcome = "absent"
    /\ tick.calls[2].outcome = "ok"
    /\ tick.calls[2].speed = tick.final_speed

\* C19: with an empty fan list set_all_fan_speeds raises without calling
\* any fan, and a tick that reaches the fan-out with it fails.
C19_EmptyFanList ==
    (ReachedFanOut /\ tick.fans = <<>>) =>
        /\ tick.result = "raised"
        /\ tick.error = "FanException"
        /\ tick.calls = <<>>
        /\ tick.failsafe_calls = <<>>

\* A tick that computed a speed and found no fan to command.
C19_Witness ==
    /\ ReachedFanOut
    /\ tick.fans = <<>>
    /\ tick.result = "raised"
    /\ Len(tick.outputs) = 2
    /\ RLt(policy.fan_min, tick.final_speed)

-----------------------------------------------------------------------------
(* Properties of load_from_json, checked under SpecLoad                    *)

\* The defects of a policy that the specification lists.
MissingTopLevelKey(json) ==
    ~json.has_pid_domains \/ ~json.has_constants \/ ~json.has_fan_limits

DefectivePolicy(json) ==
    \/ MissingTopLevelKey(json)
    \/ json.pid_domains = 0
    \/ json.min = None \/ json.max = None
    \/ (json.min # None /\ json.max # None /\ Val(json.min) > Val(json.max))
    \/ (json.min # None /\ Val(json.min) < 30)
    \/ (json.max # None /\ Val(json.max) > 100)
    \/ json.interval = None
    \/ (json.interval # None /\ Val(json.interval) <= 0)

\* C20: load_from_json raises for every policy with a missing top-level
\* key, an empty pid_domains, a missing min or max, min > max, min < 30,
\* max > 100, a missing interval or a non-positive interval, and accepts
\* every policy without any of these defects.
C20_RejectsDefectivePolicies ==
    loaded.called => (loaded.error # "none" <=> DefectivePolicy(loaded.json))

-----------------------------------------------------------------------------
(* Further properties of a single controller, checked under SpecPID        *)

\* C21: constructing a controller whose KI is 0 succeeds and seeds its
\* integral to 0.
C21_ZeroKiConstructs ==
    (pid_status # "none" /\ pid.ki = Zero) =>
        /\ pid_status = "ok"
        /\ pid.integral = Zero

-----------------------------------------------------------------------------
(* The order of the sensor reads and fan writes of one tick                *)

\* One call on a sensor or on a fan.
SensorRead(op, i) == [kind |-> "read", op |-> op, index |-> i]
FanWrite(call) == [kind |-> "write", op |-> "set_speed", index |-> call.fan]

\* Lines 390-406: the calls _log_temperature_sensors makes on thermal i.
LogReadsOfControlled(i, t) ==
    <<SensorRead("is_controlled_by_pid", i)>>
    \o (IF ~t.controlled THEN <<>>
        ELSE <<SensorRead("get_pid_setpoint", i)>>
             \o (IF IsNone(t.setpoint) THEN <<>>
                 ELSE <<SensorRead("get_pid_domain", i)>>))

LogReadsOf(i, t) ==
    <<SensorRead("get_temperature", i)>>
    \o (IF IsNone(t.temperature) THEN <<>>
        ELSE <<SensorRead("get_name", i)>>
             \o (IF IsNone(ProcessSensorName(t.name)) \/ ~t.has_pid THEN <<>>
                 ELSE LogReadsOfControlled(i, t)))

\* Lines 616-625: the calls _group_thermals_by_domain makes on thermal i.
GroupReadsOf(i, t) ==
    IF ~t.has_pid THEN <<SensorRead("get_name", i)>>
    ELSE <<SensorRead("is_controlled_by_pid", i)>>
         \o (IF t.controlled THEN <<SensorRead("get_pid_domain", i)>>
             ELSE <<>>)

\* Lines 653-661: the calls the loop of _compute_domain_pid_output makes on
\* thermal i.
ComputeReadsOf(i, t) ==
    <<SensorRead("get_temperature", i)>>
    \o (IF IsNone(t.temperature) THEN <<>>
        ELSE <<SensorRead("get_pid_setpoint", i)>>)

\* The loops of lines 389, 615 and 652 from position j on.
RECURSIVE LogReadsFrom(_, _)
LogReadsFrom(j, thermals) ==
    IF j > Len(thermals) THEN <<>>
    ELSE LogReadsOf(j, thermals[j]) \o LogReadsFrom(j + 1, thermals)

RECURSIVE GroupReadsFrom(_, _)
GroupReadsFrom(j, thermals) ==
    IF j > Len(thermals) THEN <<>>
    ELSE GroupReadsOf(j, thermals[j]) \o GroupReadsFrom(j + 1, thermals)

RECURSIVE MemberReadsFrom(_, _, _)
MemberReadsFrom(j, members, thermals) ==
    IF j > Len(members) THEN <<>>
    ELSE ComputeReadsOf(members[j], thermals[members[j]])
         \o MemberReadsFrom(j + 1, members, thermals)

\* Lines 674 and 524: the name of the thermal with the largest error is
\* read twice once a domain has produced an output.
DomainNameReads(k, outputs, thermals) ==
    IF k > Len(outputs) THEN <<>>
    ELSE LET i == CHOOSE i \in 1..Len(thermals) :
                      thermals[i].name = outputs[k].max_error_thermal
         IN  <<SensorRead("get_name", i), SensorRead("get_name", i)>>

\* The loop of lines 521-525 from group k on: the groups up to the first
\* one that raises are computed, each of them has an entry in outputs
\* except the one that raised.
RECURSIVE DomainReadsFrom(_, _, _, _)
DomainReadsFrom(k, groups, outputs, thermals) ==
    IF k > Len(groups) \/ k > Len(outputs) + 1 THEN <<>>
    ELSE MemberReadsFrom(1, groups[k].members, thermals)
         \o DomainNameReads(k, outputs, thermals)
         \o DomainReadsFrom(k + 1, groups, outputs, thermals)

\* The set_speed calls of a fan-out, in the order made.
FanWrites(calls) == [c \in 1..Len(calls) |-> FanWrite(calls[c])]

\* The sensor reads of lines 513-525.
SensorReads(t) ==
    IF RaisedBeforeThermals(t.error) THEN <<>>
    ELSE LogReadsFrom(1, t.thermals)
         \o GroupReadsFrom(1, t.thermals)
         \o DomainReadsFrom(1, t.groups, t.outputs, t.thermals)

\* execute (lines 476-491): the calls a finished tick t made on sensors and
\* fans, in the order made: the reads of lines 513-525, the fan-out of line
\* 569 and the fail-safe fan-out of line 490.
IOTrace_FailSafeFirst(t) ==
    FanWrites(t.failsafe_calls) \o SensorReads(t) \o FanWrites(t.calls)
IOTrace(t) ==
    SensorReads(t) \o FanWrites(t.calls) \o FanWrites(t.failsafe_calls)

ReadsBeforeWrites(trace) ==
    \A i, j \in 1..Len(trace) :
        (i < j /\ trace[i].kind = "write") => trace[j].kind = "write"

HasRead(trace, op) == \E i \in 1..Len(trace) : trace[i].op = op

-----------------------------------------------------------------------------
(* CsvLogger: one logger and its file                                      *)

CSV_MAX_FILE_SIZE_MB == 50
CSV_TRIM_RATIO == Rat(8, 10)

\* Line 122.
MaxSizeBytes == CSV_MAX_FILE_SIZE_MB * 1024 * 1024

\* Number of log_row calls followed, and of data rows a file holds at start.
MaxLogRows == 3
MaxOldRows == 6

\* A line of the file: a header row (0: the headers of this logger, 1: the
\* headers an earlier process wrote) or data row number id.
HeaderLine(h) == [header |-> TRUE, id |-> h]
RowLine(n) == [header |-> FALSE, id |-> n]

\* The steps of log_row that touch the file system; a step in faults raises
\* OSError at its first system call, before it has changed the file.
IOSteps == { "makedirs", "initialize", "getsize", "read", "rewrite", "append" }

\* try: ... except Exception: log_error(...) (lines 86-88, 107-109, 126-128,
\* 152-154 and 176-179): what leaves the handler when the body raised error.
Caught_Propagate(error) == error
Caught(error) == "none"

Step(file, raised) == [file |-> file, raised |-> raised]

\* _ensure_directory_exists (lines 77-88).
EnsureDirectoryExists(faults) ==
    Caught(IF "makedirs" \in faults THEN "OSError" ELSE "none")

\* _ensure_file_initialized (lines 98-109), after line 98: the header row is
\* written when the file is absent or empty.
InitializeFile(file, faults) ==
    IF "initialize" \in faults THEN Step(file, Caught("OSError"))
    ELSE IF IsNone(file) \/ Val(file) = <<>>
    THEN Step(Some(<<HeaderLine(0)>>), "none")
    ELSE Step(file, "none")

\* _ensure_file_initialized (lines 90-109).
EnsureFileInitialized(file, faults) ==
    IF EnsureDirectoryExists(faults) # "none"
    THEN Step(file, EnsureDirectoryExists(faults))
    ELSE InitializeFile(file, faults)

\* Line 145: int(total_lines * CSV_TRIM_RATIO) is the floor of the product
\* (the double nearest to 0.8 is above 0.8, so the product of a multiple of
\* five is not rounded below the integer).
LinesToKeep(total_lines) ==
    RMax(RInt(2), RInt((total_lines * CSV_TRIM_RATIO[1])
                       \div CSV_TRIM_RATIO[2]))[1]

\* Lines 146-148: lines[0] and lines[-data_lines_to_keep:].
KeptLines_Oldest(lines, lines_to_keep) ==
    SubSeq(lines, 1, lines_to_keep)
KeptLines(lines, lines_to_keep) ==
    <<lines[1]>>
    \o (IF lines_to_keep - 1 > 0
        THEN SubSeq(lines, Len(lines) - (lines_to_keep - 1) + 1, Len(lines))
        ELSE <<>>)

\* _trim_file (lines 130-154) on a file that exists.
TrimFile(lines, faults) ==
    IF "read" \in faults THEN Step(Some(lines), Caught("OSError"))
    ELSE IF Len(lines) <= 1 THEN Step(Some(lines), "none")
    ELSE IF "rewrite" \in faults THEN Step(Some(lines), Caught("OSError"))
    ELSE Step(Some(KeptLines(lines, LinesToKeep(Len(lines)))), "none")

\* os.path.getsize: an empty file has size 0; size is what the file system
\* reports for a file that holds lines (the lines have no length here).
SizeOf(lines, size) == IF lines = <<>> THEN 0 ELSE size

\* _check_and_trim_file (lines 111-128).
CheckAndTrimFile(file, size, faults) ==
    IF "getsize" \in faults THEN Step(file, Caught("OSError"))
    ELSE IF IsNone(file) THEN Step(file, "none")
    ELSE IF SizeOf(Val(file), size) < MaxSizeBytes THEN Step(file, "none")
    ELSE TrimFile(Val(file), faults)

\* Lines 172-179: open(filepath, "a") creates a missing file.
AppendRow(file, faults, row) ==
    IF "append" \in faults THEN Step(file, Caught("OSError"))
    ELSE Step(Some((IF IsNone(file) THEN <<>> ELSE Val(file))
                   \o <<RowLine(row)>>), "none")

\* What a log_row call leaves behind: the file after the trim step, the
\* file at the end, and the exception that left log_row ("none": returned).
LogRowResult(trimmed, file, raised) ==
    [trimmed |-> trimmed, file |-> file, raised |-> raised]

\* Lines 172-179, given the result of line 171.
LogRowFromTrim(checked, appended) ==
    IF checked.raised # "none"
    THEN LogRowResult(checked.file, checked.file, checked.raised)
    ELSE LogRowResult(checked.file, appended.file, appended.raised)

\* Lines 171-179, given the result of line 170.
LogRowFromInit(initialized, checked, faults, row) ==
    IF initialized.raised # "none"
    THEN LogRowResult(initialized.file, initialized.file, initialized.raised)
    ELSE LogRowFromTrim(checked, AppendRow(checked.file, faults, row))

\* log_row (lines 156-179).  debug: the logger's level lets DEBUG through.
LogRow(file, debug, size, faults, row) ==
    IF ~debug THEN LogRowResult(file, file, "none")
    ELSE LogRowFromInit(EnsureFileInitialized(file, faults),
             CheckAndTrimFile(EnsureFileInitialized(file, faults).file,
                              size, faults),
             faults, row)

\* The data rows 1..k.
OldRows(k) == [n \in 1..k |-> RowLine(n)]

\* The file when the logger is constructed (lines 63-75 touch no file): no
\* file, an empty file, or a header and rows left by a process that used
\* the same or other headers.
CsvInit ==
    /\ \E k \in 0..MaxOldRows, h \in {0, 1}, present \in {"absent", "empty", "rows"} :
          csv = [ file  |-> CASE present = "absent" -> None
                              [] present = "empty"  -> Some(<<>>)
                              [] present = "rows"   ->
                                     Some(<<HeaderLine(h)>> \o OldRows(k)),
                  rows  |-> IF present = "rows" THEN k ELSE 0,
                  calls |-> 0,
                  last  |-> NoLogRow ]
    /\ EngineIdle
    /\ PIDIdle
    /\ LoadIdle
    /\ DpmIdle

\* One log_row call.
CsvLogRowEnds(debug, size, faults, r) ==
    /\ csv' = [ file  |-> r.file,
                rows  |-> csv.rows + 1,
                calls |-> csv.calls + 1,
                last  |-> [ called  |-> TRUE,
                            debug   |-> debug,
                            size    |-> size,
                            faults  |-> faults,
                            before  |-> csv.file,
                            trimmed |-> r.trimmed,
                            row     |-> csv.rows + 1,
                            raised  |-> r.raised ] ]
    /\ UNCHANGED <<engineVars, pidVars, loadVars, telemetryVars, dpmVars>>

CsvLogRow ==
    /\ ~csv.last.called
    /\ csv.calls < MaxLogRows
    /\ \E debug \in BOOLEAN, faults \in SUBSET IOSteps,
          size \in { MaxSizeBytes - 1, MaxSizeBytes, MaxSizeBytes + 1 } :
          CsvLogRowEnds(debug, size, faults,
              LogRow(csv.file, debug, size, faults, csv.rows + 1))

\* The caller goes on; the record of the call is dropped.
CsvReturn ==
    /\ csv.last.called
    /\ csv' = [csv EXCEPT !.last = NoLogRow]
    /\ UNCHANGED <<engineVars, pidVars, loadVars, telemetryVars, dpmVars>>

CsvNext == CsvLogRow \/ CsvReturn

SpecCsv == CsvInit /\ [][CsvNext]_vars

-----------------------------------------------------------------------------
(* Properties of CsvLogger, checked under SpecCsv                          *)

\* The file log_row was called on holds lines and is at or above the cap.
TrimCase ==
    /\ csv.last.called
    /\ ~IsNone(csv.last.before)
    /\ Len(Val(csv.last.before)) >= 2
    /\ csv.last.size >= 50 * 1024 * 1024

\* max(2, floor(0.8 * n)).
TrimmedLength(n) == IF (8 * n) \div 10 > 2 THEN (8 * n) \div 10 ELSE 2

\* The header of the old file followed by its newest k - 1 lines.
TrimmedLines(old, k) ==
    [i \in 1..k |-> IF i = 1 THEN old[1] ELSE old[Len(old) - k + i]]

\* The trim left the lines it should and the new row came after them.
TrimmedThenAppended ==
    /\ csv.last.trimmed =
           Some(TrimmedLines(Val(csv.last.before),
                             TrimmedLength(Len(Val(csv.last.before)))))
    /\ csv.file = Some(Append(Val(csv.last.trimmed), RowLine(csv.last.row)))

C24_LogRowReturns == csv.last.called => csv.last.raised = "none"

\* A call in which every I/O step that was reached failed.
C24_Witness ==
    /\ csv.last.called
    /\ csv.last.debug
    /\ csv.last.faults = IOSteps
    /\ csv.last.raised = "none"
    /\ csv.file = csv.last.before

-----------------------------------------------------------------------------
(* The engine followed with its CSV loggers                                *)

\* The sensors of a chassis with transceivers, in the order get_thermals()
\* lists them, each in the conditions it can be read in.  "ASIC temp0" is
\* dropped from the telemetry, the transceivers are renamed, amb0 is not
\* PID-controlled.
TelemetryChassis ==
    << "amb0", "ASIC temp0", "Transceiver Port10", "Transceiver Port2", "cpu0" >>

TelemetryThermalStates ==
    { Thermal("amb0", TRUE, FALSE, "", Some(30), None),
      Thermal("ASIC temp0", TRUE, TRUE, "asic", Some(60), Some(50)),
      Thermal("Transceiver Port10", TRUE, TRUE, "asic", Some(60), Some(50)),
      Thermal("Transceiver Port10", TRUE, TRUE, "asic", None, Some(50)),
      Thermal("Transceiver Port2", TRUE, TRUE, "asic", Some(60), Some(50)),
      Thermal("Transceiver Port2", TRUE, TRUE, "asic", None, Some(50)),
      Thermal("cpu0", TRUE, TRUE, "cpu", Some(52), Some(50)),
      Thermal("cpu0", TRUE, TRUE, "cpu", Some(52), None) }

ChassisPosition(name) ==
    CHOOSE k \in 1..Len(TelemetryChassis) : TelemetryChassis[k] = name

\* What get_thermals() can return: up to MaxSensors of the sensors, those
\* that are plugged in, in chassis order.
TelemetryThermalLists ==
    { l \in UNION { [1..n -> TelemetryThermalStates] : n \in 0..MaxSensors } :
        \A i, j \in 1..Len(l) :
            i < j => ChassisPosition(l[i].name) < ChassisPosition(l[j].name) }

TelemetryFanLists == { <<>>, << <<"ok", "ok">> >> }

\* The state after __init__ and load_from_json of a valid policy.
InitTelemetry ==
    /\ policy = TwinGainPolicy
    /\ pidControllers = <<>>
    /\ extra_setpoint_margin = <<>>
    /\ ticks = 0
    /\ tick = NoTick
    /\ csv_loggers = InitializeCsvLoggers(PolicyDomains(policy))
    /\ PIDIdle
    /\ LoadIdle
    /\ CsvIdle
    /\ DpmIdle

\* execute on the sensors of the chassis, the loggers included.
TickWithTelemetry ==
    /\ TickDue
    /\ \E thermals \in TelemetryThermalLists, fans \in TelemetryFanLists :
          /\ Execute(TRUE, policy.interval, thermals, fans)
          /\ WithTelemetry(thermals)

\* execute without ThermalInfo (lines 500-502), the loggers included.
TickWithoutThermals ==
    /\ TickDue
    /\ \E fans \in TelemetryFanLists :
          /\ Execute(FALSE, policy.interval, <<>>, fans)
          /\ WithTelemetry(<<>>)

TelemetryNext ==
    \/ TickWithTelemetry
    \/ TickWithoutThermals
    \/ Wait

SpecTelemetry == InitTelemetry /\ [][TelemetryNext]_vars

-----------------------------------------------------------------------------
(* Properties of the telemetry headers, checked under SpecTelemetry        *)

\* The name under which the telemetry shows a sensor, "" for a sensor it
\* drops.
TelemetryNameOf(name) ==
    CASE name = "ASIC temp0"         -> ""
      [] name = "Transceiver Port2"  -> "Port2"
      [] name = "Transceiver Port10" -> "Port10"
      [] OTHER                       -> name

\* The telemetry names in natural order.
NaturalOrder == << "amb0", "asic0", "asic1", "cpu0", "Port2", "Port10", "psu0" >>

NaturalRank(name) == CHOOSE k \in 1..Len(NaturalOrder) : NaturalOrder[k] = name

\* h is "timestamp" followed by the given names in natural order.
IsHeaderOf(h, names) ==
    /\ Len(h) = Cardinality(names) + 1
    /\ h[1] = "timestamp"
    /\ { h[i] : i \in 2..Len(h) } = names
    /\ \A i, j \in 2..Len(h) : i < j => NaturalRank(h[i]) < NaturalRank(h[j])

\* The names the temperature stream sees in a list of thermals, and those
\* the input-error stream of domain d sees.
TemperatureNames(thermals) ==
    { TelemetryNameOf(thermals[i].name) :
        i \in { j \in 1..Len(thermals) : ~IsNone(thermals[j].temperature) } }
    \ { "" }

InputErrorNames(thermals, d) ==
    { TelemetryNameOf(thermals[i].name) :
        i \in { j \in 1..Len(thermals) :
                  /\ ~IsNone(thermals[j].temperature)
                  /\ ~IsNone(thermals[j].setpoint)
                  /\ thermals[j].has_pid /\ thermals[j].controlled
                  /\ thermals[j].domain = d } }
    \ { "" }

\* A logger is created by the first tick that sees names for its stream,
\* with these names as its header, and is left alone from then on.
HeaderStep(before, after, names) ==
    IF ~IsNone(before) THEN after = before
    ELSE IF names = {} THEN IsNone(after)
    ELSE ~IsNone(after) /\ IsHeaderOf(Val(after), names)

TelemetryStep ==
    IF tick'.result = "none" \/ tick.result # "none"
       \/ tick'.error = "ValueError: no thermal info"
    THEN csv_loggers' = csv_loggers
    ELSE /\ HeaderStep(csv_loggers.temperature, csv_loggers'.temperature,
                       TemperatureNames(tick'.thermals))
         /\ DOMAIN csv_loggers'.input_error = DOMAIN csv_loggers.input_error
         /\ \A d \in DOMAIN csv_loggers.input_error :
               HeaderStep(csv_loggers.input_error[d],
                          csv_loggers'.input_error[d],
                          InputErrorNames(tick'.thermals, d))

\* C25: the header of the temperature CSV and of each per-domain
\* input-error CSV is the natural-sorted list of the sensor names seen at
\* the first tick that emits to that stream, and never changes afterwards:
\* a sensor that appears at a later tick does not extend or alter it.
C25_HeadersFixed == [][TelemetryStep]_vars

\* The first tick saw the two transceivers and fixed the headers of the
\* temperature and of the asic stream; the second tick sees cpu0, which
\* enters the header of the cpu stream only.
C25_Witness ==
    /\ ticks = 2
    /\ tick.result # "none"
    /\ csv_loggers.temperature = Some(<<"timestamp", "Port2", "Port10">>)
    /\ csv_loggers.input_error["asic"] = Some(<<"timestamp", "Port2", "Port10">>)
    /\ csv_loggers.input_error["cpu"] = Some(<<"timestamp", "cpu0">>)
    /\ "cpu0" \in TemperatureNames(tick.thermals)


\* C29: the derivative of compute_detailed is 0 on a controller's first
\* call and (error - prev_error)/interval on every later call, prev_error
\* being the error of the call before; after every call, whether or not the
\* integral was frozen, prev_error is the error just passed in and
\* first_run is false.
C29_DerivativeAndSavedError ==
    \A i \in 1..Len(hist) :
        /\ hist[i].derivative =
               IF i = 1 THEN Zero
               ELSE RDiv(RSub(hist[i].error, hist[i - 1].error),
                         RInt(pid.interval))
        /\ hist[i].after.prev_error = hist[i].error
        /\ ~hist[i].after.first_run
        /\ i = Len(hist) => (pid.prev_error = hist[i].error /\ ~pid.first_run)

\* A second call with a different error whose integral was frozen, after a
\* first call with a non-zero error.
C29_Witness ==
    /\ Len(hist) >= 2
    /\ hist[1].error # Zero
    /\ hist[1].derivative = Zero
    /\ hist[2].error # hist[1].error
    /\ hist[2].derivative # Zero
    /\ hist[2].details.frozen_integral
    /\ hist[2].after.integral = hist[2].before.integral
    /\ pid.prev_error = hist[2].error

-----------------------------------------------------------------------------
(* The engine loaded with a policy one of whose domains has KI = 0         *)

\* validate_json (lines 452-474) does not look at the gains, so
\* load_from_json accepts these policies.
LateZeroKiPolicy ==
    [ pid_domains |-> << DomainConfig("asic", RInt(1), Rat(1, 10), RInt(2), Zero),
                         DomainConfig("cpu", RInt(1), Zero, RInt(2), Zero) >>,
      interval |-> 5, fan_min |-> RInt(40), fan_max |-> RInt(100) ]

EarlyZeroKiPolicy ==
    [ pid_domains |-> << DomainConfig("cpu", RInt(1), Zero, RInt(2), Zero),
                         DomainConfig("asic", RInt(1), Rat(1, 10), RInt(2), Zero) >>,
      interval |-> 5, fan_min |-> RInt(40), fan_max |-> RInt(100) ]

ZeroKiPolicies == { LateZeroKiPolicy, EarlyZeroKiPolicy }

InitZeroKi ==
    /\ policy \in ZeroKiPolicies
    /\ pidControllers = <<>>
    /\ extra_setpoint_margin = <<>>
    /\ ticks = 0
    /\ tick = NoTick
    /\ csv_loggers = InitializeCsvLoggers(PolicyDomains(policy))
    /\ PIDIdle
    /\ LoadIdle
    /\ CsvIdle
    /\ DpmIdle

SpecZeroKi == InitZeroKi /\ [][Next]_vars

\* C30: after any tick, successful or failed, either no PID controller
\* exists or there is one for every configured domain.
C30_AllOrNoControllers ==
    tick.result # "none" =>
        \/ DOMAIN pidControllers = {}
        \/ DOMAIN pidControllers = PolicyDomains(policy)

-----------------------------------------------------------------------------
(* ADM1266 DPM: blackbox, fault decoding and reboot cause                  *)

\* The decoder and the resolver are given by sections 4.5 and 4.7 of the
\* specification and by the calls of test_adm1266.py; the definitions below
\* follow those.

\* Highest PDIO number and number of records followed.
MaxPdio == 3
MaxRecords == 2

\* Bit b of x, and x | (1 << b).
BitSet(x, b) == (x \div (2 ^ b)) % 2 = 1
OrBit_Add(code, b) == code + 2 ^ b
OrBit(code, b) == IF BitSet(code, b) THEN code ELSE code + 2 ^ b

\* PDIO n is bit n - 1 of a PDIO bitfield (test_decode_dpm_fault: with
\* dpm_signals = {2: 0}, the input 2 has "PDIO 2 set").
PdioSet(pdio_input, n) == BitSet(pdio_input, n - 1)

\* The composite code: for each PDIO set in pdio_input that dpm_signals
\* maps, 1 << dpm_signals[pdio] is OR-ed into the code.
RECURSIVE CodeFrom(_, _, _, _)
CodeFrom(n, dpm_signals, pdio_input, code) ==
    IF n > MaxPdio THEN code
    ELSE CodeFrom(n + 1, dpm_signals, pdio_input,
             IF n \in DOMAIN dpm_signals /\ PdioSet(pdio_input, n)
             THEN OrBit(code, dpm_signals[n])
             ELSE code)

\* dpm_table[code]; None when the table has no entry or an empty one.
LookupFault(dpm_table, code) ==
    IF code \in DOMAIN dpm_table /\ dpm_table[code] # ""
    THEN Some(dpm_table[code])
    ELSE None

\* decode_dpm_fault(dpm_table, dpm_signals, pdio_input).
DecodeDpmFault(dpm_table, dpm_signals, pdio_input) ==
    LookupFault(dpm_table, CodeFrom(1, dpm_signals, pdio_input, 0))

\* The tables of the platform (Adm1266PlatformSpec.get_dpm_table,
\* get_dpm_signals, get_pdio_input_to_fault_cause) and those of
\* test_decode_dpm_fault.
TestDpmTable == (1 :> "Test fault" @@ 0 :> "")
TestDpmSignals == (2 :> 0)

PlatformDpmTable ==
    (1 :> "Overcurrent VDD" @@ 2 :> "Overtemperature" @@ 3 :> "")
PlatformDpmSignals == (1 :> 0 @@ 2 :> 0 @@ 3 :> 1)

PdioInputToFaultCause ==
    ( 1 :> [reboot_cause |-> "REBOOT_CAUSE_WATCHDOG",
            description  |-> "Watchdog expired"]
   @@ 3 :> [reboot_cause |-> "REBOOT_CAUSE_POWER_LOSS",
            description  |-> "Input power lost"] )

DpmTables == { TestDpmTable, PlatformDpmTable }
DpmSignalMaps == { TestDpmSignals, PlatformDpmSignals, (1 :> 1 @@ 3 :> 0) }
PdioInputs == 0..(2 ^ MaxPdio - 1)

\* A parsed fault record: its uid and its pdio_in bitfield.
FaultRecord(uid, pdio_in) == [uid |-> uid, pdio_in |-> pdio_in]

FaultRecords == { FaultRecord(uid, p) : uid \in 1..3, p \in {0, 2, 5} }

\* Up to MaxRecords parsed records, their uids distinct, in any order.
RecordLists ==
    { l \in UNION { [1..n -> FaultRecords] : n \in 0..MaxRecords } :
        \A i, j \in 1..Len(l) : i # j => l[i].uid # l[j].uid }

\* The bytes of a record in the blackbox: a fixed layout, here the uid and
\* the pdio_in, one byte each.
RecordSize == 2

RECURSIVE EncodeRecords(_)
EncodeRecords(records) ==
    IF records = <<>> THEN <<>>
    ELSE <<Head(records).uid, Head(records).pdio_in>>
         \o EncodeRecords(Tail(records))

\* The literal byte "1" of a device without records.
EmptyBlackbox == <<49>>

\* What the NVMEM can hold: the empty state, whole records, or a blob cut
\* short.
DpmBlobs ==
    { EmptyBlackbox, <<1, 2, 3>> }
    \cup { EncodeRecords(l) : l \in RecordLists \ { <<>> } }

\* read_blackbox: the bytes of the NVMEM.
ReadBlackbox(blob) == blob

\* clear_blackbox: the device is left in its empty state.
ClearBlackbox_NoBytes(blob) == <<>>
ClearBlackbox(blob) == EmptyBlackbox

\* parse_blackbox(data): the records of the blob in the order stored; the
\* empty state holds none; a blob that is not a whole number of records is
\* rejected.
ParseBlackbox(data) ==
    IF data = EmptyBlackbox THEN [error |-> "none", records |-> <<>>]
    ELSE IF Len(data) % RecordSize # 0
    THEN [error |-> "decoding error", records |-> <<>>]
    ELSE [error   |-> "none",
          records |-> [k \in 1..(Len(data) \div RecordSize) |->
                          FaultRecord(data[RecordSize * (k - 1) + 1],
                                      data[RecordSize * (k - 1) + 2])]]

\* The triggering fault: the record with the greatest uid.
TriggeringFault_Last(records) == records[Len(records)]
TriggeringFault(records) ==
    records[CHOOSE i \in 1..Len(records) :
                \A j \in 1..Len(records) : records[j].uid <= records[i].uid]

\* The reboot causes of the PDIO bits set in a record.
RebootCauses(record) ==
    { PdioInputToFaultCause[n].reboot_cause :
        n \in { k \in DOMAIN PdioInputToFaultCause : PdioSet(record.pdio_in, k) } }

\* get_reboot_cause_type(causes): one cause, the more specific first.
GetRebootCauseType(causes) ==
    IF "REBOOT_CAUSE_POWER_LOSS" \in causes THEN "REBOOT_CAUSE_POWER_LOSS"
    ELSE IF "REBOOT_CAUSE_WATCHDOG" \in causes THEN "REBOOT_CAUSE_WATCHDOG"
    ELSE "REBOOT_CAUSE_HARDWARE_OTHER"

\* The debug message: the decoded DPM fault and the descriptions of the
\* PDIO bits set.
DebugMsg(record) ==
    [ fault        |-> DecodeDpmFault(PlatformDpmTable, PlatformDpmSignals,
                                      record.pdio_in),
      descriptions |-> { PdioInputToFaultCause[n].description :
                           n \in { k \in DOMAIN PdioInputToFaultCause :
                                     PdioSet(record.pdio_in, k) } } ]

\* The resolver on one record.
ResolveFault(record) ==
    [ reboot_cause |-> GetRebootCauseType(RebootCauses(record)),
      debug_msg    |-> Some(DebugMsg(record)) ]

\* get_reboot_cause on parsed records.
GetRebootCause(records) ==
    IF records = <<>>
    THEN [reboot_cause |-> "no fault recorded", debug_msg |-> None]
    ELSE ResolveFault(TriggeringFault(records))

DpmCall(name, input, output) ==
    [name |-> name, input |-> input, output |-> output]

\* What the NVMEM of the device holds at start.
DeviceBlobs ==
    { EmptyBlackbox, <<1, 2, 3>>,
      EncodeRecords(<<FaultRecord(1, 2)>>),
      EncodeRecords(<<FaultRecord(1, 2), FaultRecord(2, 5)>>) }

DpmInit ==
    /\ \E blob \in DeviceBlobs :
          dpm = [blob |-> blob, cleared |-> FALSE, last |-> NoDpmCall]
    /\ EngineIdle
    /\ PIDIdle
    /\ LoadIdle
    /\ CsvIdle

DpmFrame == UNCHANGED <<engineVars, pidVars, loadVars, telemetryVars, csvVars>>

DpmDecode ==
    /\ \E dpm_table \in DpmTables, dpm_signals \in DpmSignalMaps,
          pdio_input \in PdioInputs :
          dpm' = [dpm EXCEPT !.last =
                     DpmCall("decode_dpm_fault",
                             <<dpm_table, dpm_signals, pdio_input>>,
                             DecodeDpmFault(dpm_table, dpm_signals, pdio_input))]
    /\ DpmFrame

DpmReadBlackbox ==
    /\ dpm' = [dpm EXCEPT !.last =
                  DpmCall("read_blackbox", dpm.blob, ReadBlackbox(dpm.blob))]
    /\ DpmFrame

DpmClearBlackbox ==
    /\ dpm' = [ blob    |-> ClearBlackbox(dpm.blob),
                cleared |-> TRUE,
                last    |-> DpmCall("clear_blackbox", dpm.blob, <<>>) ]
    /\ DpmFrame

DpmParseBlackbox ==
    /\ \E data \in DpmBlobs :
          dpm' = [dpm EXCEPT !.last =
                     DpmCall("parse_blackbox", data, ParseBlackbox(data))]
    /\ DpmFrame

DpmGetRebootCause ==
    /\ \E records \in RecordLists :
          dpm' = [dpm EXCEPT !.last =
                     DpmCall("get_reboot_cause", records,
                             GetRebootCause(records))]
    /\ DpmFrame

DpmNext ==
    \/ DpmDecode
    \/ DpmReadBlackbox
    \/ DpmClearBlackbox
    \/ DpmParseBlackbox
    \/ DpmGetRebootCause

SpecDpm == DpmInit /\ [][DpmNext]_vars

-----------------------------------------------------------------------------
(* Properties of the DPM decoder and resolver, checked under SpecDpm       *)

\* The code bits of the PDIOs that are set in pdio_input.
CodeBits(dpm_signals, pdio_input) ==
    { dpm_signals[n] :
        n \in { k \in DOMAIN dpm_signals : (pdio_input \div 2 ^ (k - 1)) % 2 = 1 } }

RECURSIVE SumOfPowers(_)
SumOfPowers(bits) ==
    IF bits = {} THEN 0
    ELSE LET b == CHOOSE x \in bits : TRUE
         IN  2 ^ b + SumOfPowers(bits \ {b})

\* C26: decode_dpm_fault returns dpm_table[code], code being the OR over
\* every PDIO bit set in pdio_input of 1 << dpm_signals[bit]; without an
\* entry, or with an empty one, the cause is unknown; with the table
\* {1: "Test fault", 0: ""}, the signals {2: 0} and the input 2 the result
\* is "Test fault".
C26_DecodeDpmFault ==
    dpm.last.name = "decode_dpm_fault" =>
        LET dpm_table   == dpm.last.input[1]
            dpm_signals == dpm.last.input[2]
            pdio_input  == dpm.last.input[3]
            code        == SumOfPowers(CodeBits(dpm_signals, pdio_input))
        IN  /\ dpm.last.output =
                   IF code \in DOMAIN dpm_table /\ dpm_table[code] # ""
                   THEN Some(dpm_table[code]) ELSE None
            /\ (/\ dpm_table = (1 :> "Test fault" @@ 0 :> "")
                /\ dpm_signals = (2 :> 0)
                /\ pdio_input = 2)
               => dpm.last.output = Some("Test fault")

\* Two PDIOs that share a code bit are set, and the table has the cause.
C26_Witness ==
    /\ dpm.last.name = "decode_dpm_fault"
    /\ dpm.last.input[2] = (1 :> 0 @@ 2 :> 0 @@ 3 :> 1)
    /\ dpm.last.input[3] = 3
    /\ dpm.last.output = Some("Overcurrent VDD")

\* The record of greatest uid of a non-empty list.
GreatestUid(records) ==
    CHOOSE r \in { records[i] : i \in 1..Len(records) } :
        \A i \in 1..Len(records) : records[i].uid <= r.uid

\* C27: the output of the reboot cause resolver depends only on the record
\* with the greatest uid: record lists whose greatest-uid records are equal
\* give the same output, whatever their other records and their order.
C27_GreatestUidDecides ==
    (dpm.last.name = "get_reboot_cause" /\ dpm.last.input # <<>>) =>
        \A others \in RecordLists \ { <<>> } :
            GreatestUid(others) = GreatestUid(dpm.last.input)
                => GetRebootCause(others) = dpm.last.output

\* The triggering fault comes first in the list and the older record has
\* another cause.
C27_Witness ==
    /\ dpm.last.name = "get_reboot_cause"
    /\ Len(dpm.last.input) = 2
    /\ dpm.last.input[1] = [uid |-> 3, pdio_in |-> 5]
    /\ dpm.last.input[2] = [uid |-> 1, pdio_in |-> 2]
    /\ dpm.last.output.reboot_cause = "REBOOT_CAUSE_POWER_LOSS"

-----------------------------------------------------------------------------
(* Speeds commanded to the fans, checked under Spec                        *)

\* validate_json accepts the fan limits of cfg (lines 465-472).
AcceptedLimits(cfg) ==
    /\ RLe(cfg.fan_min, cfg.fan_max)
    /\ RLe(RInt(FAN_MIN_SPEED), cfg.fan_min)
    /\ RLe(cfg.fan_max, RInt(FAN_MAX_SPEED))

\* The speeds of the set_speed calls of the tick, fail-safe included.
CommandedSpeeds ==
    { tick.calls[k].speed : k \in 1..Len(tick.calls) }
    \cup { tick.failsafe_calls[k].speed : k \in 1..Len(tick.failsafe_calls) }

\* C31: with a policy accepted by load_from_json, every set_speed call of
\* execute carries a value within [fan_limits.min, fan_limits.max] or
\* exactly 100, so that no fan is commanded below 30 or above 100.
C31_SpeedWithinLimits ==
    AcceptedLimits(policy) =>
        \A speed \in CommandedSpeeds :
            /\ \/ RLe(policy.fan_min, speed) /\ RLe(speed, policy.fan_max)
               \/ speed = RInt(100)
            /\ RLe(RInt(30), speed)
            /\ RLe(speed, RInt(100))

\* With limits 30..90, a tick commands a speed within the limits, a fan
\* raises and the fail-safe commands 100.
C31_Witness ==
    /\ policy = MixedGainPolicy
    /\ ticks = 2
    /\ tick.calls # <<>>
    /\ RLe(tick.calls[1].speed, RInt(90))
    /\ RLt(RInt(30), tick.calls[1].speed)
    /\ tick.failsafe_calls # <<>>
    /\ tick.failsafe_calls[1].speed = RInt(100)

-----------------------------------------------------------------------------
(* PID state after a failed tick, checked under Spec                       *)

\* integral, prev_error and first_run of a controller.
PidState(c) == <<c.integral, c.prev_error, c.first_run>>

\* The domains the tick computed, in the order of the loop of line 521.
ComputedDomains == { tick.outputs[k].domain : k \in 1..Len(tick.outputs) }

\* The state in which a tick leaves the controller of domain d that existed
\* before it: one compute_detailed call further if the loop of line 521 got
\* through the domain, untouched otherwise.
StateLeftBy(d) ==
    IF d \in ComputedDomains
    THEN ComputeDetailed(tick.before[d], OutputOf(d).max_error).controller
    ELSE tick.before[d]

\* How far the loop of line 521 got in a failed tick: nowhere when the tick
\* failed before it, up to the domain without usable sensor when that is
\* the failure, through every group when the fan-out failed.
LoopProgress ==
    /\ tick.error \in { "FanException", "fan exception" }
          => Len(tick.outputs) = Len(tick.groups)
    /\ tick.error = "ValueError: no valid thermal"
          => Len(tick.outputs) < Len(tick.groups)
    /\ tick.error \notin { "FanException", "fan exception",
                           "ValueError: no valid thermal" }
          => tick.outputs = <<>>
    /\ \A k \in 1..Len(tick.outputs) :
          tick.outputs[k].domain = tick.groups[k].domain

\* C32 as stated: a tick that fails leaves integral, prev_error and
\* first_run of every domain exactly as they were before the tick, whether
\* a later domain had no usable sensor or the fan-out raised.
C32_FailedTickKeepsState ==
    tick.result = "raised" =>
        \A d \in DOMAIN tick.before :
            PidState(pidControllers[d]) = PidState(tick.before[d])

\* C32 amended: nothing is rolled back.  A failed tick leaves the state of
\* every domain whose output it computed before failing advanced by that
\* one compute call, and the state of the other domains as it was: no
\* domain when the tick failed before the per-domain loop, the domains
\* ahead of the one without usable sensor when that is the failure, every
\* domain with candidate sensors when the fan-out raised.
C32_FailedTickState ==
    tick.result = "raised" =>
        /\ LoopProgress
        /\ \A d \in DOMAIN tick.before :
              pidControllers[d] = StateLeftBy(d)

\* cpu is computed, then asic has no usable sensor: the tick fails with the
\* state of cpu advanced and that of asic untouched.
C32_Witness ==
    /\ tick.result = "raised"
    /\ tick.error = "ValueError: no valid thermal"
    /\ DOMAIN tick.before = ConfiguredDomains
    /\ Len(tick.outputs) = 1
    /\ tick.outputs[1].domain = "cpu"
    /\ PidState(pidControllers["cpu"]) # PidState(tick.before["cpu"])
    /\ pidControllers["asic"] = tick.before["asic"]

-----------------------------------------------------------------------------
(* Rows of the temperature stream, checked under SpecTelemetry             *)

\* Lines 417-420: the values of temp_row after the timestamp, those of
\* all_sensor_temps in the natural order of this tick's names.
TemperatureRow(thermals) ==
    [ k \in 1..Cardinality(DOMAIN AllSensorTemps(thermals)) |->
        AllSensorTemps(thermals)[SortedNames(DOMAIN AllSensorTemps(thermals))[k]] ]

\* Line 417: the tick just taken handed a row to the temperature logger.
TemperatureRowLogged ==
    /\ tick.result # "none"
    /\ ~RaisedBeforeThermals(tick.error)
    /\ ~IsNone(csv_loggers.temperature)
    /\ DOMAIN AllSensorTemps(tick.thermals) # {}

\* The row has one value per sensor column of the header h, each the
\* temperature the tick read from the sensor the column names.
RowMatchesHeader(row, h, temps) ==
    /\ Len(row) + 1 = Len(h)
    /\ \A k \in 1..Len(row) :
          /\ k + 1 <= Len(h)
          /\ h[k + 1] \in DOMAIN temps
          /\ row[k] = temps[h[k + 1]]

\* C33: every data row of the temperature CSV has exactly one value per
\* column of the stream's header, in header order, the value of a column
\* being the temperature of the sensor the column names, also when sensors
\* have appeared or disappeared since the header was fixed.
C33_RowsMatchHeader ==
    TemperatureRowLogged =>
        RowMatchesHeader(TemperatureRow(tick.thermals),
                         Val(csv_loggers.temperature),
                         AllSensorTemps(tick.thermals))

=============================================================================
